---- MODULE Spec2Model ----
(***************************************************************************)
(* Model of the verity skill engine (engine/skillEngine.ts), of the atomic *)
(* file primitives (adapters/atomicIO.ts) and of the atomic refresh        *)
(* pipeline built on them (skills/refreshPipelineAtomic.ts with            *)
(* adapters/refreshAdaptersAtomic.ts), and of the execution governor       *)
(* (skills/executionGovernor.ts).                                          *)
(***************************************************************************)
EXTENDS Integers, Sequences, FiniteSets, TLC

\* ------------------------------------------------------------------------
\* Bounds of the exploration
\* ------------------------------------------------------------------------
\* largest explicit opts.maxSteps explored for the engine family
MaxStepsBound == 3
\* number of consecutive pipeline runs explored
MaxRuns == 2
\* number of consecutive calls of atomicWriteJson explored
MaxWrites == 2
\* number of invocations of the refresh script explored
MaxInvocations == 3
\* number of calls of TraceStore.record explored
MaxRecords == 2
\* number of calls of tick explored for the refresh timer
MaxTicks == 3
\* the milliseconds explored after the refresh timer was started
MaxElapsed == 4

\* ------------------------------------------------------------------------
\* Program constants
\* ------------------------------------------------------------------------
\* opts?.maxSteps ?? 200
DefaultMaxSteps == 200

\* JavaScript's undefined for an absent string (a note, an error's name);
\* an absent option of another type is the empty tuple, a given one <<v>>
NoOpt == "undefined"

VARIABLES
  spec,      \* the SkillSpec handed to runSkill
  opts,      \* the options handed to runSkill: [maxSteps, allowedStates]
  ctx,       \* the run context
  current,   \* let current
  steps,     \* let steps
  trace,     \* const trace: TraceEvent[]
  pc,        \* position of runSkill: loop, enter, outgoing, guard, exit, catch, done
  stateDef,  \* const stateDef (the state whose definition was looked up)
  ti,        \* position of the for loop over outgoing
  sel,       \* the transition t whose guard held (while its exit hook runs)
  exc,       \* the exception in flight towards the outer catch
  result,    \* the RunResult the call resolved to
  escaped,   \* TRUE when the call rejected instead of resolving
  calls,     \* history: the hook, guard and adapter invocations of the run, in order
  fs,        \* the files of the data directory: path -> content
  volume,    \* the data directory as checkVolume finds it: ok, missing, readonly
  now,       \* Date.now()
  run,       \* history: the number of pipeline runs started
  fs0,       \* history: the files before the first run
  preRun,    \* history: the files when the current run started
  lastCommit, \* history: what the run that last committed the pointer produced
  aw,        \* the call of atomicWriteJson in progress: position, arguments, tmp
  dirty,     \* the files whose data has not reached the disk (no sync yet)
  seen,      \* history: what concurrent readers found at the target paths
  input,     \* history: the context as it was handed to runSkill
  lock,      \* the lock file /data/.refresh.lock: absent, or the date written
  sh,        \* the invocations of the refresh script: position, and the
             \* invocations that were running index or score when it started
  tracesDir, \* the directory <dataDir>/traces: absent, or file name -> content
  store,     \* let _store: TRUE once initTraceStore was called
  recorded,  \* history: what each call of TraceStore.record returned: <<id>>,
             \* or <<>> when it raised
  last,      \* the last call of the trace store, of a middleware or of an
             \* adapter outside a run: its position, and what it returned or
             \* raised
  timer      \* the refresh timer: everyMs, the interval (none, set, cleared),
             \* when it is next due, and the position of each call of tick

engineVars == <<spec, opts, ctx, current, steps, trace, pc, stateDef, ti, sel,
                exc, result, escaped, calls>>

awVars == <<aw, dirty, seen>>

shVars == <<lock, sh>>

tsVars == <<tracesDir, store, recorded, last>>

tmVars == <<timer>>

hostVars == <<shVars, tsVars, tmVars>>

envVars == <<fs, volume, now, run, fs0, input, preRun, lastCommit, awVars, hostVars>>

vars == <<engineVars, envVars>>

\* ------------------------------------------------------------------------
\* Specifications explored by the engine family
\* ------------------------------------------------------------------------
NoGuard == "noGuard"
NoHook == "noHook"

Tr(from, to, label, guard) ==
  [from |-> from, to |-> to, label |-> label, guard |-> guard]

St(onEnter, onExit) == [onEnter |-> onEnter, onExit |-> onExit]

\* A two-state cycle without hooks or guards: only the step budget ends it.
LoopSpec ==
  [name |-> "test.loop", version |-> "0.1.0", start |-> "A",
   terminal |-> {"T"}, fail |-> {"F"},
   states |-> [s \in {"A", "B", "T", "F"} |-> St(NoHook, NoHook)],
   transitions |-> <<Tr("A", "B", "ab", NoGuard), Tr("B", "A", "ba", NoGuard)>>]

\* Guarded branching, hooks, a cycle through a guard, a state without
\* outgoing transitions (C) and a guard that raises.
BranchSpec ==
  [name |-> "test.branch", version |-> "0.1.0", start |-> "A",
   terminal |-> {"T"}, fail |-> {"F"},
   states |-> [s \in {"A", "B", "C", "T", "F"} |->
                 IF s = "A" THEN St("hook", NoHook)
                 ELSE IF s = "B" THEN St(NoHook, "hook")
                 ELSE IF s = "C" THEN St("hook", NoHook)
                 ELSE St(NoHook, NoHook)],
   transitions |-> <<Tr("A", "F", "ax", "gThrow"),
                     Tr("A", "B", "ab", "g0"),
                     Tr("A", "C", "ac", "g1"),
                     Tr("B", "A", "ba", "g1"),
                     Tr("B", "T", "bt", NoGuard),
                     Tr("B", "F", "bf", "g0")>>]

\* A transition into a state that has no definition.
MissingSpec ==
  [name |-> "test.missing", version |-> "0.1.0", start |-> "A",
   terminal |-> {"T"}, fail |-> {"F"},
   states |-> [s \in {"A", "T", "F"} |-> St(NoHook, NoHook)],
   transitions |-> <<Tr("A", "Ghost", "ag", "g0"), Tr("A", "T", "at", NoGuard)>>]

\* The start state is terminal.
TrivialSpec ==
  [name |-> "test.trivial", version |-> "0.1.0", start |-> "T",
   terminal |-> {"T"}, fail |-> {"F"},
   states |-> [s \in {"T", "F"} |-> St(NoHook, NoHook)],
   transitions |-> <<>>]

\* A state with an exit hook whose transitions are all guarded, one of them
\* into the declared fail state.
GatedSpec ==
  [name |-> "test.gated", version |-> "0.1.0", start |-> "A",
   terminal |-> {"T"}, fail |-> {"F"},
   states |-> [s \in {"A", "T", "F"} |->
                 IF s = "A" THEN St(NoHook, "hook") ELSE St(NoHook, NoHook)],
   transitions |-> <<Tr("A", "F", "ax", "gThrow"), Tr("A", "T", "at", "g0"),
                     Tr("A", "F", "af", "g1")>>]

SpecFamily == {LoopSpec, BranchSpec, MissingSpec, TrivialSpec, GatedSpec}

\* contexts of the family: two flags, read by the guards g0 and g1
CtxValues == 0..3

\* exceptions a hook of the family may raise: an Error object, a bare string
HookErrors ==
  { [name |-> "TypeError", message |-> "boom", str |-> "TypeError: boom"],
    [name |-> NoOpt, message |-> NoOpt, str |-> "oops"] }

\* arguments a hook of the family may hand to api.fail
HookFails == { [failState |-> "F", note |-> "declared"],
               [failState |-> "X", note |-> NoOpt] }

\* ------------------------------------------------------------------------
\* engine/skillEngine.ts
\* ------------------------------------------------------------------------
\* e?.name ?? "Error"
ErrName(e) == IF e.name = NoOpt THEN "Error" ELSE e.name

\* e?.message ?? String(e)
ErrMessage(e) == IF e.message = NoOpt THEN e.str ELSE e.message

\* class SkillFail
SkillFail(failState, msg) ==
  [name |-> "SkillFail", message |-> msg, str |-> "SkillFail", failState |-> failState]

\* const maxSteps = opts?.maxSteps ?? 200
maxSteps == IF opts.maxSteps = <<>> THEN DefaultMaxSteps ELSE opts.maxSteps[1]

\* variant: the budget test never fires
OverBudgetNever(st) == FALSE

\* ++steps > maxSteps, for the incremented counter st
OverBudget(st) == st > maxSteps

\* const allowed = opts?.allowedStates
allowed == opts.allowedStates

\* const isTerminal = (s) => spec.terminal.includes(s) || spec.fail.includes(s)
isTerminal(s) == s \in spec.terminal \/ s \in spec.fail

\* variant: the allowlist is not consulted
ForbiddenNever(s) == FALSE

\* allowed && !allowed.includes(current)
Forbidden(s) == allowed /= <<>> /\ s \notin allowed[1]

Invocations == 1..MaxInvocations

\* no invocation of the refresh script has started, no lock file
ShIdle ==
  /\ lock = <<>>
  /\ sh = [p \in Invocations |-> [pc |-> "idle", others |-> {}]]

\* no trace store, no traces directory, nothing called yet
TsIdle ==
  /\ tracesDir = <<>>
  /\ store = FALSE
  /\ recorded = <<>>
  /\ last = [name |-> "none"]

\* startInternalRefreshTimer was not called
TmIdle == timer = [interval |-> "none", everyMs |-> 0, due |-> 0, ticks |-> <<>>]

HostIdle == ShIdle /\ TsIdle /\ TmIdle

\* no call of atomicWriteJson in progress, no unsynced data, no reader
AwIdle ==
  /\ aw = [pc |-> "idle", n |-> 0]
  /\ dirty = {}
  /\ seen = {}

\* variant: the outgoing transitions in reverse order of declaration
OutgoingReversed(s) ==
  LET out == SelectSeq(spec.transitions, LAMBDA t : t.from = s)
  IN [i \in 1..Len(out) |-> out[Len(out) + 1 - i]]

\* variant: the filter on the source state is missing
OutgoingAll(s) == spec.transitions

\* spec.transitions.filter((t) => t.from === current)
Outgoing(s) == SelectSeq(spec.transitions, LAMBDA t : t.from = s)

\* !!v of an optional boolean
Truthy(v) == v /= <<>> /\ v[1]

\* variant: no volume only when the directory is not writable either
NoVolumeGuardStrict(c) == ~Truthy(c.hasVolume) /\ ~Truthy(c.canWrite)

\* (ctx) => !ctx.hasVolume
NoVolumeGuard(c) == ~Truthy(c.hasVolume)

\* variant: an empty index does not go on to Score
HasIndexGuardCount(c) == c.indexCount /= <<>> /\ c.indexCount[1] > 0

\* (ctx) => ctx.indexJson !== undefined
HasIndexGuard(c) == c.indexJson /= <<>>

\* the guards: what the guard function returns ("true", "false") or "throw"
GuardEval(g, c) ==
  CASE g = "g0" -> IF c % 2 = 1 THEN "true" ELSE "false"
    [] g = "g1" -> IF (c \div 2) % 2 = 1 THEN "true" ELSE "false"
    [] g = "gThrow" -> "throw"
    [] g = "noVolume" -> IF NoVolumeGuard(c) THEN "true" ELSE "false"
    \* (ctx) => !!ctx.hasVolume && !ctx.canWrite
    [] g = "readOnly" -> IF Truthy(c.hasVolume) /\ ~Truthy(c.canWrite)
                         THEN "true" ELSE "false"
    \* (ctx) => !!ctx.hasVolume && !!ctx.canWrite
    [] g = "volumeOk" -> IF Truthy(c.hasVolume) /\ Truthy(c.canWrite)
                         THEN "true" ELSE "false"
    [] g = "hasIndex" -> IF HasIndexGuard(c) THEN "true" ELSE "false"
    \* (ctx) => ctx.scoresJson !== undefined
    [] g = "hasScores" -> IF c.scoresJson /= <<>> THEN "true" ELSE "false"
    \* (ctx) => ctx.decision !== "DENIED"
    [] g = "notDenied" -> IF c.decision /= "DENIED" THEN "true" ELSE "false"
    \* (ctx) => ctx.decision === "DENIED"
    [] g = "denied" -> IF c.decision = "DENIED" THEN "true" ELSE "false"
    \* (ctx) => ctx.decision === "APPROVED"
    [] g = "approved" -> IF c.decision = "APPROVED" THEN "true" ELSE "false"
    \* (ctx) => ctx.decision === "THROTTLED"
    [] g = "throttled" -> IF c.decision = "THROTTLED" THEN "true" ELSE "false"

\* variant: a guard that raises lets the transition through
GuardOkRaiseTrue(g, c) == GuardEval(g, c) \in {"true", "throw"}

\* try { ok = !!(await t.guard(ctx)); } catch { ok = false; }
GuardOk(g, c) == GuardEval(g, c) = "true"

\* api.fail up to its throw: the events pushed, the new current, the SkillFail
ApiFail(tr, cur, failState, note) ==
  LET t1 == Append(tr, [type |-> "transition", from |-> cur, to |-> failState,
                        label |-> "FAIL"])
      t2 == IF note /= NoOpt
            THEN Append(t1, [type |-> "error", state |-> failState, note |-> note,
                             error |-> [name |-> "Fail", message |-> note]])
            ELSE t1
  IN [trace |-> t2, current |-> failState,
      exc |-> SkillFail(failState, IF note = NoOpt THEN "failed" ELSE note)]

\* variant: a failure in a state the specification does not declare is rethrown
OuterCatchRethrow(e, cur, tr, st, c) ==
  LET failState == IF e.name = "SkillFail" THEN e.failState ELSE cur
  IN IF failState \notin spec.fail /\ failState \notin spec.terminal
     THEN [rejected |-> TRUE]
     ELSE [rejected |-> FALSE,
           value |-> [ok |-> FALSE,
                      skill |-> [name |-> spec.name, version |-> spec.version],
                      startState |-> spec.start, endState |-> failState,
                      steps |-> st, trace |-> tr, ctx |-> c]]

\* the catch block of runSkill
OuterCatch(e, cur, tr, st, c) ==
  LET failState == IF e.name = "SkillFail" THEN e.failState ELSE cur
      t2 == IF failState \notin spec.fail /\ failState \notin spec.terminal
            THEN Append(tr, [type |-> "error", state |-> failState,
                             error |-> [name |-> ErrName(e), message |-> ErrMessage(e)]])
            ELSE tr
  IN [rejected |-> FALSE,
      value |-> [ok |-> FALSE,
                 skill |-> [name |-> spec.name, version |-> spec.version],
                 startState |-> spec.start, endState |-> failState,
                 steps |-> st, trace |-> t2, ctx |-> c]]

\* variant: the hook's exception is rethrown as it is
HookCatchRethrow(e, tr, cur, phase) == [trace |-> tr, current |-> cur, exc |-> e]

\* catch (e) around a hook that raised something other than a SkillFail:
\* push the error event, then api.fail("ActionError", ...)
HookCatch(e, tr, cur, phase) ==
  ApiFail(Append(tr, [type |-> "error", state |-> cur,
                      error |-> [name |-> ErrName(e), message |-> ErrMessage(e)]]),
          cur, "ActionError", phase \o " failed in " \o cur)

\* an exception on its way to the outer catch, with what was pushed before it
Throw(f) ==
  /\ trace' = f.trace
  /\ current' = f.current
  /\ exc' = f.exc
  /\ pc' = "catch"

\* variant: every state that ends the loop counts as a success
SucceededAnyEnd(s) == isTerminal(s)

\* ok: spec.terminal.includes(current)
Succeeded(s) == s \in spec.terminal

\* while (!isTerminal(current)) { ++steps; budget, allowlist and definition
\* checks; push enter }  and, once terminal, the done event and the return
RunLoop ==
  /\ pc = "loop"
  /\ IF isTerminal(current)
     THEN LET t2 == Append(trace, [type |-> "done", state |-> current,
                                   note |-> IF current \in spec.fail
                                            THEN "failed" ELSE "ok"])
          IN /\ trace' = t2
             /\ result' = [ok |-> Succeeded(current),
                           skill |-> [name |-> spec.name, version |-> spec.version],
                           startState |-> spec.start, endState |-> current,
                           steps |-> steps, trace |-> t2, ctx |-> ctx]
             /\ pc' = "done"
             /\ UNCHANGED <<current, steps, stateDef, exc>>
     ELSE /\ steps' = steps + 1
          /\ result' = result
          /\ IF OverBudget(steps + 1)
             THEN /\ Throw(ApiFail(trace, current, "EngineTimeout",
                                   "Exceeded maxSteps=" \o ToString(maxSteps)))
                  /\ UNCHANGED stateDef
             ELSE IF Forbidden(current)
             THEN /\ Throw(ApiFail(trace, current, "ForbiddenState",
                                   "State not allowed: " \o current))
                  /\ UNCHANGED stateDef
             ELSE IF current \notin DOMAIN spec.states
             THEN /\ Throw(ApiFail(trace, current, "MissingState",
                                   "No state definition for: " \o current))
                  /\ UNCHANGED stateDef
             ELSE /\ stateDef' = current
                  /\ trace' = Append(trace, [type |-> "enter", state |-> current])
                  /\ pc' = IF spec.states[current].onEnter /= NoHook
                           THEN "enter" ELSE "outgoing"
                  /\ UNCHANGED <<current, exc>>
  /\ UNCHANGED <<spec, opts, ctx, ti, sel, escaped, calls>>
  /\ UNCHANGED envVars

\* ------------------------------------------------------------------------
\* adapters/atomicIO.ts
\* ------------------------------------------------------------------------
\* null, and undefined for a value that is not a string
Undef == <<>>

IndexPath == <<"index.json">>
ScoresPath == <<"scores.json">>
LastGoodPath == <<".last_good.json">>
JsonlPath == <<"ais_scores.jsonl">>

\* `${targetPath}.bak.${Date.now()}`
BakPath(p, t) == p \o <<"bak", t>>

\* variant: the data is written to the target itself
TmpPathInPlace(p, t) == p

\* `${targetPath}.tmp.${process.pid}.${Date.now()}` (one process)
TmpPath(p, t) == p \o <<"tmp", t>>

\* JSON.stringify(obj, null, 2): the complete text of obj
JsonText(obj) == [text |-> obj, complete |-> TRUE]

\* a prefix of that text, as a write that did not finish leaves it
CutText(obj) == [text |-> obj, complete |-> FALSE]

\* fileExists
fileExists(f, p) == p \in DOMAIN f

WriteFile(f, p, c) == [q \in DOMAIN f \cup {p} |-> IF q = p THEN c ELSE f[q]]

Unlink(f, p) == [q \in DOMAIN f \ {p} |-> f[q]]

\* fs.rename(a, b)
Rename(f, a, b) == Unlink(WriteFile(f, b, f[a]), a)

IoError(msg) == [name |-> "Error", message |-> msg, str |-> "Error: " \o msg]

\* how a call ended: it returned v, or it raised e; f are the files it left
Ok(v, f) == [ok |-> TRUE, value |-> v, fs |-> f]
Raise(e, f) == [ok |-> FALSE, error |-> e, fs |-> f]

\* await first; then rest(its result): a raise of first ends the sequence
Then(first, rest(_)) == UNION { IF r.ok THEN rest(r) ELSE {r} : r \in first }

\* atomicWriteJson: every way the call can end, with the files it leaves
atomicWriteJson(f, targetPath, obj, t) ==
  LET tmp == TmpPath(targetPath, t)
  IN { Ok([targetPath |-> targetPath, tmpWritten |-> tmp],
          Unlink(WriteFile(WriteFile(f, tmp, JsonText(obj)), targetPath, JsonText(obj)), tmp)),
       \* fs.open raises
       Raise(IoError("open"), f),
       \* writeFile or sync raises: the temporary file holds a prefix
       Raise(IoError("write"), WriteFile(f, tmp, CutText(obj))),
       \* fs.rename raises: the temporary file is complete, the target untouched
       Raise(IoError("rename"), WriteFile(f, tmp, JsonText(obj))) }

\* variant: no backup is taken
backupIfExistsNever(f, targetPath, t) == { Ok([backupPath |-> Undef], f) }

\* backupIfExists
backupIfExists(f, targetPath, t) ==
  IF ~fileExists(f, targetPath)
  THEN { Ok([backupPath |-> Undef], f) }
  ELSE { Ok([backupPath |-> <<BakPath(targetPath, t)>>],
            WriteFile(f, BakPath(targetPath, t), f[targetPath])),
         Raise(IoError("copyFile"), f) }

\* loadLastGoodPointer: JSON.parse of the file, null when it cannot be read
loadLastGoodPointer(f, pointerPath) ==
  IF fileExists(f, pointerPath) /\ f[pointerPath].complete
  THEN <<f[pointerPath].text>>
  ELSE Undef

\* commitLastGoodPointer
commitLastGoodPointer(f, pointerPath, pointerObj, t) ==
  atomicWriteJson(f, pointerPath, pointerObj, t)

\* one artifact of rollbackArtifacts: restore it from bak, or note the absence
RestoreOne(f, what, target, bak) ==
  IF bak /= Undef /\ fileExists(f, bak[1])
  THEN { Ok("restored " \o what \o " from backup", WriteFile(f, target, f[bak[1]])),
         Raise(IoError("copyFile"), f) }
  ELSE { Ok(what \o " rollback: no backup found", f) }

\* rollbackArtifacts
rollbackArtifacts(f, o) ==
  Then(RestoreOne(f, "index", o.indexPath, o.indexBak), LAMBDA r1 :
  Then(RestoreOne(r1.fs, "scores", o.scoresPath, o.scoresBak), LAMBDA r2 :
    { Ok([rolledBack |-> TRUE, note |-> r1.value \o " | " \o r2.value], r2.fs) }))

\* ------------------------------------------------------------------------
\* adapters/refreshAdaptersAtomic.ts
\* ------------------------------------------------------------------------
\* the numbers of events the indexer may find in argue_events.jsonl
EventCounts == {0, 1}

\* path.join(ctx.dataDir, ".probe")
ProbePath == <<".probe">>

\* checkVolume: stat, write and unlink a probe; any failure reports no volume
\* (a failure of the unlink leaves the probe behind)
checkVolume(c, f, vol, t) ==
  IF vol = "ok"
  THEN { Ok([hasVolume |-> TRUE, canWrite |-> TRUE, note |-> "volume ok"], f),
         Ok([hasVolume |-> FALSE, canWrite |-> FALSE,
             note |-> "volume missing/unwritable"], WriteFile(f, ProbePath, JsonText(t))) }
  ELSE { Ok([hasVolume |-> FALSE, canWrite |-> FALSE,
             note |-> "volume missing/unwritable"], f) }

\* a checkVolume adapter supplied by the caller: any report, or it raises
customCheckVolume(c, f) ==
  { Ok([hasVolume |-> h, canWrite |-> w, note |-> "custom"], f) : h, w \in BOOLEAN }
    \cup { Raise(IoError("stat"), f) }

\* buildIndex
buildIndex(c, f, t) ==
  { Ok([indexJson |-> [updatedAt |-> t, eventCount |-> n],
        indexCount |-> n, note |-> "indexed " \o ToString(n) \o " events"], f) :
      n \in EventCounts }
    \cup { Raise(IoError("read argue_events.jsonl"), f) }

\* scoreIndex: one profile, hence one score, per author of an event
scoreIndex(c, f, t) ==
  LET n == IF c.indexJson /= Undef THEN c.indexJson[1].eventCount ELSE 0
  IN { Ok([scoresJson |-> [updatedAt |-> t, totalAgents |-> n],
           scoredCount |-> n, note |-> "scored " \o ToString(n) \o " agents"], f),
       Raise([name |-> "TypeError", message |-> "wallet", str |-> "TypeError: wallet"], f) }

\* the compat ais_scores.jsonl of writeAtomic: stream to a temporary, rename
WriteJsonl(f, obj, t) ==
  LET tmp == TmpPath(JsonlPath, t)
  IN { Ok(JsonlPath, Unlink(WriteFile(WriteFile(f, tmp, JsonText(obj)),
                                      JsonlPath, JsonText(obj)), tmp)),
       Raise(IoError("stream"), WriteFile(f, tmp, CutText(obj))),
       Raise(IoError("rename"), WriteFile(f, tmp, JsonText(obj))) }

\* writeAtomic
writeAtomic(c, f, t) ==
  IF c.indexJson = Undef THEN { Raise(IoError("missing indexJson"), f) }
  ELSE IF c.scoresJson = Undef THEN { Raise(IoError("missing scoresJson"), f) }
  ELSE
    Then(backupIfExists(f, c.indexPath, t), LAMBDA idxBak :
    Then(backupIfExists(idxBak.fs, c.scoresPath, t), LAMBDA scrBak :
    Then(atomicWriteJson(scrBak.fs, c.indexPath, c.indexJson[1], t), LAMBDA w1 :
    Then(atomicWriteJson(w1.fs, c.scoresPath, c.scoresJson[1], t), LAMBDA w2 :
    Then(WriteJsonl(w2.fs, c.scoresJson[1], t), LAMBDA w3 :
      { Ok([wrote |-> <<c.indexPath, c.scoresPath, JsonlPath>>,
            backups |-> [indexBak |-> idxBak.value.backupPath,
                         scoresBak |-> scrBak.value.backupPath],
            note |-> "atomic write ok"], w3.fs) })))))

\* loadLastGood
loadLastGood(c, f) ==
  LET lastGood == loadLastGoodPointer(f, c.lastGoodPath)
  IN { Ok([lastGood |-> lastGood,
           note |-> IF lastGood /= Undef THEN "last_good loaded" ELSE "no last_good yet"],
          f) }

\* ctx.pendingBackups?.indexBak and the like
BakOf(holder, field) == IF holder = Undef THEN Undef ELSE holder[1][field]

\* a ?? b
Coalesce(a, b) == IF a /= Undef THEN a ELSE b

\* commitLastGood
commitLastGood(c, f, t) ==
  LET pointer == [updatedAt |-> t, indexPath |-> c.indexPath, scoresPath |-> c.scoresPath,
                  indexBackupPath |-> BakOf(c.pendingBackups, "indexBak"),
                  scoresBackupPath |-> BakOf(c.pendingBackups, "scoresBak")]
  IN { IF r.ok THEN Ok([lastGood |-> pointer, note |-> "last_good committed"], r.fs)
       ELSE r :
       r \in commitLastGoodPointer(f, c.lastGoodPath, pointer, t) }

\* rollback
rollback(c, f) ==
  { IF r.ok THEN Ok([rolledBack |-> TRUE, note |-> r.value.note], r.fs) ELSE r :
    r \in rollbackArtifacts(f,
            [indexPath |-> c.indexPath, scoresPath |-> c.scoresPath,
             indexBak |-> Coalesce(BakOf(c.pendingBackups, "indexBak"),
                                   BakOf(c.lastGood, "indexBackupPath")),
             scoresBak |-> Coalesce(BakOf(c.pendingBackups, "scoresBak"),
                                    BakOf(c.lastGood, "scoresBackupPath"))]) }

\* publish
publish(c, f) == { Ok([published |-> FALSE, note |-> "publish not configured"], f) }

\* a publish adapter supplied by the caller: it may publish, decline or raise
customPublish(c, f) ==
  { Ok([published |-> b, note |-> "custom"], f) : b \in BOOLEAN }
    \cup { Raise(IoError("upload"), f) }

\* ------------------------------------------------------------------------
\* skills/refreshPipelineAtomic.ts
\* ------------------------------------------------------------------------
RequiredAdapters == <<"checkVolume", "loadLastGood", "buildIndex", "scoreIndex",
                      "writeAtomic", "commitLastGood", "rollback">>

RefreshFail == {"BadConfig", "NoVolume", "ReadOnlyVolume", "IndexFailed", "ScoreFailed",
                "PartialWrite", "WriteFailed", "CommitFailed", "RollbackFailed",
                "PublishFailed", "ActionError", "Stuck", "GuardsBlocked"}

RefreshHooked == {"Start", "DetectStorage", "LoadLastGood", "BuildIndex", "Score",
                  "WriteAtomic", "CommitPointer", "Publish", "Rollback"}

refreshPipelineAtomicSpec ==
  [name |-> "verity.refresh_pipeline_atomic", version |-> "0.2.0", start |-> "Start",
   terminal |-> {"Done"}, fail |-> RefreshFail,
   states |-> [s \in RefreshHooked \cup {"EnsureWritable", "Done"} \cup RefreshFail |->
                 IF s \in RefreshHooked THEN St(s, NoHook) ELSE St(NoHook, NoHook)],
   transitions |-> <<
     Tr("Start", "DetectStorage", "init ok", NoGuard),
     Tr("DetectStorage", "NoVolume", "no volume", "noVolume"),
     Tr("DetectStorage", "ReadOnlyVolume", "read-only", "readOnly"),
     Tr("DetectStorage", "LoadLastGood", "ok", "volumeOk"),
     Tr("LoadLastGood", "EnsureWritable", "loaded pointer", NoGuard),
     Tr("EnsureWritable", "BuildIndex", "go index", NoGuard),
     Tr("BuildIndex", "Score", "go score", "hasIndex"),
     Tr("Score", "WriteAtomic", "go write", "hasScores"),
     Tr("WriteAtomic", "CommitPointer", "commit pointer", NoGuard),
     Tr("CommitPointer", "Publish", "optional publish", NoGuard),
     Tr("Publish", "Done", "done", NoGuard),
     Tr("PartialWrite", "Rollback", "rollback after partial", NoGuard),
     Tr("CommitFailed", "Rollback", "rollback after commit failed", NoGuard),
     Tr("Rollback", "Done", "done after rollback", NoGuard) >>]

\* ctx.note = [ctx.note, res.note].filter(Boolean).join(" | ")
JoinNote(c, n) == [c EXCEPT !.note = Append(@, n)]

\* outcomes of a hook: what it did as the engine sees it (HookDone), the files
\* it left and the adapters it invoked
Returned(c, f, inv) == [kind |-> "return", ctx |-> c, fs |-> f, invoked |-> inv]
Failed(c, f, inv, failState, note) ==
  [kind |-> "fail", ctx |-> c, fs |-> f, invoked |-> inv,
   failState |-> failState, note |-> note]
Raised(e, c, f, inv) == [kind |-> "raise", ctx |-> c, error |-> e, fs |-> f, invoked |-> inv]

Invoked(name, r) == <<[op |-> "adapter", name |-> name, ok |-> r.ok]>>

\* the first of the checks of Start.onEnter that fails, if any
RECURSIVE FirstMissingAdapter(_, _)
FirstMissingAdapter(a, i) ==
  IF i > Len(RequiredAdapters) THEN Undef
  ELSE IF RequiredAdapters[i] \notin a THEN <<"missing adapters." \o RequiredAdapters[i]>>
  ELSE FirstMissingAdapter(a, i + 1)

StartOnEnter(c, f, t) ==
  LET c1 == [c EXCEPT !.now = IF @ = Undef THEN <<t>> ELSE @]
      bad == IF c.baseDir = "" THEN <<"missing baseDir">>
             ELSE IF c.dataDir = "" THEN <<"missing dataDir">>
             ELSE IF c.indexPath = Undef THEN <<"missing indexPath">>
             ELSE IF c.scoresPath = Undef THEN <<"missing scoresPath">>
             ELSE IF c.lastGoodPath = Undef THEN <<"missing lastGoodPath">>
             ELSE FirstMissingAdapter(c.adapters, 1)
  IN IF bad /= Undef
     THEN { Failed(c1, f, <<>>, "BadConfig", bad[1]) }
     ELSE { Returned([c1 EXCEPT !.note = <<"refresh atomic start " \o c.intervalTag>>],
                     f, <<>>) }

DetectStorageOnEnter(c, f, vol, t) ==
  { IF r.ok
    THEN Returned(JoinNote([c EXCEPT !.hasVolume = <<r.value.hasVolume>>,
                                     !.canWrite = <<r.value.canWrite>>], r.value.note),
                  r.fs, Invoked("checkVolume", r))
    ELSE Raised(r.error, c, r.fs, Invoked("checkVolume", r)) :
    r \in IF "customCheckVolume" \in c.adapters
          THEN customCheckVolume(c, f) ELSE checkVolume(c, f, vol, t) }

LoadLastGoodOnEnter(c, f) ==
  { Returned(JoinNote([c EXCEPT !.lastGood = r.value.lastGood], r.value.note),
             r.fs, Invoked("loadLastGood", r)) :
    r \in loadLastGood(c, f) }

BuildIndexOnEnter(c, f, t) ==
  { IF r.ok
    THEN Returned(JoinNote([c EXCEPT !.indexJson = <<r.value.indexJson>>,
                                     !.indexCount = <<r.value.indexCount>>],
                           r.value.note), r.fs, Invoked("buildIndex", r))
    ELSE Failed([c EXCEPT !.errorCode = "INDEX_EXCEPTION"], r.fs,
                Invoked("buildIndex", r), "IndexFailed", ErrMessage(r.error)) :
    r \in buildIndex(c, f, t) }

ScoreOnEnter(c, f, t) ==
  { IF r.ok
    THEN Returned(JoinNote([c EXCEPT !.scoresJson = <<r.value.scoresJson>>,
                                     !.scoredCount = <<r.value.scoredCount>>],
                           r.value.note), r.fs, Invoked("scoreIndex", r))
    ELSE Failed([c EXCEPT !.errorCode = "SCORE_EXCEPTION"], r.fs,
                Invoked("scoreIndex", r), "ScoreFailed", ErrMessage(r.error)) :
    r \in scoreIndex(c, f, t) }

\* variant: a failed write is noted and the run goes on
WriteAtomicOnEnterSwallow(c, f, t) ==
  { IF r.ok
    THEN Returned(JoinNote([c EXCEPT !.wrote = <<r.value.wrote>>,
                                     !.pendingBackups = <<r.value.backups>>],
                           r.value.note), r.fs, Invoked("writeAtomic", r))
    ELSE Returned([c EXCEPT !.errorCode = "WRITE_ATOMIC_EXCEPTION"], r.fs,
                  Invoked("writeAtomic", r)) :
    r \in writeAtomic(c, f, t) }

WriteAtomicOnEnter(c, f, t) ==
  { IF r.ok
    THEN Returned(JoinNote([c EXCEPT !.wrote = <<r.value.wrote>>,
                                     !.pendingBackups = <<r.value.backups>>],
                           r.value.note), r.fs, Invoked("writeAtomic", r))
    ELSE Failed([c EXCEPT !.errorCode = "WRITE_ATOMIC_EXCEPTION"], r.fs,
                Invoked("writeAtomic", r), "PartialWrite", ErrMessage(r.error)) :
    r \in writeAtomic(c, f, t) }

CommitPointerOnEnter(c, f, t) ==
  { IF r.ok
    THEN Returned(JoinNote([c EXCEPT !.lastGood = <<r.value.lastGood>>], r.value.note),
                  r.fs, Invoked("commitLastGood", r))
    ELSE Failed([c EXCEPT !.errorCode = "COMMIT_LAST_GOOD_EXCEPTION"], r.fs,
                Invoked("commitLastGood", r), "CommitFailed", ErrMessage(r.error)) :
    r \in commitLastGood(c, f, t) }

\* variant: the mode is not consulted
PublishOnEnterAnyMode(c, f) ==
  IF c.adapters \cap {"publish", "customPublish"} = {}
  THEN { Returned([c EXCEPT !.published = <<FALSE>>], f, <<>>) }
  ELSE { IF r.ok
         THEN Returned([c EXCEPT !.published = <<r.value.published>>], r.fs,
                       Invoked("publish", r))
         ELSE Failed([c EXCEPT !.errorCode = "PUBLISH_EXCEPTION"], r.fs,
                     Invoked("publish", r), "PublishFailed", ErrMessage(r.error)) :
         r \in IF "publish" \in c.adapters THEN publish(c, f) ELSE customPublish(c, f) }

\* variant: a failed publish counts as not published
PublishOnEnterSwallow(c, f) ==
  IF c.mode = "LOCAL_ONLY" THEN { Returned([c EXCEPT !.published = <<FALSE>>], f, <<>>) }
  ELSE IF c.adapters \cap {"publish", "customPublish"} = {}
  THEN { Returned([c EXCEPT !.published = <<FALSE>>], f, <<>>) }
  ELSE { IF r.ok
         THEN Returned([c EXCEPT !.published = <<r.value.published>>], r.fs,
                       Invoked("publish", r))
         ELSE Returned([c EXCEPT !.published = <<FALSE>>,
                                 !.errorCode = "PUBLISH_EXCEPTION"], r.fs,
                       Invoked("publish", r)) :
         r \in IF "publish" \in c.adapters THEN publish(c, f) ELSE customPublish(c, f) }

PublishOnEnter(c, f) ==
  IF c.mode = "LOCAL_ONLY" THEN { Returned([c EXCEPT !.published = <<FALSE>>], f, <<>>) }
  ELSE IF c.adapters \cap {"publish", "customPublish"} = {}
  THEN { Returned([c EXCEPT !.published = <<FALSE>>], f, <<>>) }
  ELSE { IF r.ok
         THEN Returned([c EXCEPT !.published = <<r.value.published>>], r.fs,
                       Invoked("publish", r))
         ELSE Failed([c EXCEPT !.errorCode = "PUBLISH_EXCEPTION"], r.fs,
                     Invoked("publish", r), "PublishFailed", ErrMessage(r.error)) :
         r \in IF "publish" \in c.adapters THEN publish(c, f) ELSE customPublish(c, f) }

RollbackOnEnter(c, f) ==
  { IF r.ok
    THEN Returned(JoinNote(c, r.value.note), r.fs, Invoked("rollback", r))
    ELSE Failed([c EXCEPT !.errorCode = "ROLLBACK_EXCEPTION"], r.fs,
                Invoked("rollback", r), "RollbackFailed", ErrMessage(r.error)) :
    r \in rollback(c, f) }

\* ------------------------------------------------------------------------
\* skills/executionGovernor.ts
\* ------------------------------------------------------------------------
\* IEEE-754 doubles below 256, as exact multiples of 2^-56 held in three
\* limbs <<high, middle, low>> of 24 bits each
Limb == 2^24

\* the doubles nearest to the weights 0.30, 0.25, 0.20, 0.15 and 0.10
W030 == <<76, 13421772, 13421772>>
W025 == <<64, 0, 0>>
W020 == <<51, 3355443, 3355444>>
W015 == <<38, 6710886, 6710886>>
W010 == <<25, 10066329, 10066330>>

\* carries of the low limbs brought into the higher ones
F64Carry(x) ==
  LET l1 == x[2] + (x[3] \div Limb)
  IN <<x[1] + (l1 \div Limb), l1 % Limb, x[3] % Limb>>

\* the number of bits of n
BitLen(n) == IF n = 0 THEN 0 ELSE CHOOSE k \in 1..30 : 2^(k-1) <= n /\ n < 2^k

\* the result of an operation rounded to 53 significant bits, ties to even
F64Round(x) ==
  LET q == BitLen(x[1]) - 5
      unit == 2^q
      rem == x[3] % unit
      up == rem * 2 > unit \/ (rem * 2 = unit /\ (x[3] \div unit) % 2 = 1)
  IN IF q <= 0 THEN x
     ELSE F64Carry(<<x[1], x[2], x[3] - rem + (IF up THEN unit ELSE 0)>>)

\* w * v for a weight w and an integer 0 <= v <= 100
F64Mul(w, v) == F64Round(F64Carry(<<w[1] * v, w[2] * v, w[3] * v>>))

\* x + y
F64Add(x, y) == F64Round(F64Carry(<<x[1] + y[1], x[2] + y[2], x[3] + y[3]>>))

\* Math.round(x): the nearest integer, a fraction of one half goes up
MathRound(x) == (x[1] \div 256) + (IF x[1] % 256 >= 128 THEN 1 ELSE 0)

\* const clamp = (n) => Math.max(0, Math.min(100, n))
clamp(n) == IF n < 0 THEN 0 ELSE IF n > 100 THEN 100 ELSE n

\* compositeScore
compositeScore(c) ==
  MathRound(
    F64Add(F64Add(F64Add(F64Add(F64Mul(W030, clamp(c.safety)),
                                F64Mul(W025, clamp(c.regimeAlignment))),
                         F64Mul(W020, clamp(c.conviction))),
                  F64Mul(W015, clamp(c.riskBudget))),
           F64Mul(W010, clamp(c.executionAllowance))))

\* baseThresholds
\* variant: the PUBLIC and the INTERNAL thresholds are exchanged
baseThresholdsSwapped(c) ==
  LET mode == IF c.mode = NoOpt THEN "INTERNAL" ELSE c.mode
      t == IF mode = "PUBLIC" THEN [approve |-> 68, throttle |-> 50]
           ELSE IF mode = "PRIVATE" THEN [approve |-> 72, throttle |-> 55]
           ELSE [approve |-> 78, throttle |-> 62]
  IN IF c.regime = "COLLAPSE"
     THEN [approve |-> t.approve + 8, throttle |-> t.throttle + 6]
     ELSE IF c.regime = "DISTRIBUTION"
     THEN [approve |-> t.approve + 4, throttle |-> t.throttle + 3]
     ELSE t

baseThresholds(c) ==
  LET mode == IF c.mode = NoOpt THEN "INTERNAL" ELSE c.mode
      t == IF mode = "PUBLIC" THEN [approve |-> 78, throttle |-> 62]
           ELSE IF mode = "PRIVATE" THEN [approve |-> 72, throttle |-> 55]
           ELSE [approve |-> 68, throttle |-> 50]
  IN IF c.regime = "COLLAPSE"
     THEN [approve |-> t.approve + 8, throttle |-> t.throttle + 6]
     ELSE IF c.regime = "DISTRIBUTION"
     THEN [approve |-> t.approve + 4, throttle |-> t.throttle + 3]
     ELSE t

\* { ...(ctx.debug ?? {}), k: v }
DebugWith(d, k, v) ==
  LET old == IF d = Undef THEN [x \in {} |-> Undef] ELSE d[1]
  IN <<[x \in DOMAIN old \cup {k} |-> IF x = k THEN v ELSE old[x]]>>

\* ctx.debug?.compositeScore
DebugScore(c) ==
  IF c.debug /= Undef /\ "compositeScore" \in DOMAIN c.debug[1]
  THEN <<c.debug[1]["compositeScore"]>>
  ELSE Undef

GovernorFail == {"BadInput", "ActionError", "Stuck", "GuardsBlocked"}

GovernorHooked == {"Start", "Guardrails", "Score", "Decide"}

executionGovernorSpec ==
  [name |-> "survivor.execution_governor", version |-> "0.1.0", start |-> "Start",
   terminal |-> {"Approved", "Throttled", "Denied"}, fail |-> GovernorFail,
   states |-> [s \in GovernorHooked \cup {"Approved", "Throttled", "Denied"}
                       \cup GovernorFail |->
                 IF s \in GovernorHooked THEN St("governor." \o s, NoHook)
                 ELSE St(NoHook, NoHook)],
   transitions |-> <<
     Tr("Start", "Guardrails", "validate", NoGuard),
     Tr("Guardrails", "Score", "hard gates ok", "notDenied"),
     Tr("Guardrails", "Denied", "hard gate denied", "denied"),
     Tr("Score", "Decide", "score computed", NoGuard),
     Tr("Decide", "Approved", "approved", "approved"),
     Tr("Decide", "Throttled", "throttled", "throttled"),
     Tr("Decide", "Denied", "denied", "denied") >>]

\* executionGovernorSpec.states.Start.onEnter
GovernorStartOnEnter(c, f) ==
  IF c.action = "" THEN { Failed(c, f, <<>>, "BadInput", "missing action") }
  ELSE IF c.regime = "" THEN { Failed(c, f, <<>>, "BadInput", "missing regime") }
  ELSE { Returned([c EXCEPT !.safety = clamp(@), !.conviction = clamp(@),
                            !.regimeAlignment = clamp(@), !.riskBudget = clamp(@),
                            !.executionAllowance = clamp(@),
                            !.debug = DebugWith(@, "normalized", TRUE)],
                  f, <<>>) }

\* variant: the safety floor is not enforced
GuardrailsNoFloor(c, f) ==
  IF c.executionAllowance <= 0
  THEN { Returned([c EXCEPT !.decision = "DENIED",
                            !.reason = "No execution allowance"], f, <<>>) }
  ELSE { Returned(c, f, <<>>) }

\* variant: the allowance gate only notes the reason
GuardrailsNoDenial(c, f) ==
  IF c.safety < 20
  THEN { Failed(c, f, <<>>, "BadInput", "safety too low to consider execution") }
  ELSE IF c.executionAllowance <= 0
  THEN { Returned([c EXCEPT !.reason = "No execution allowance"], f, <<>>) }
  ELSE { Returned(c, f, <<>>) }

\* executionGovernorSpec.states.Guardrails.onEnter
GuardrailsOnEnter(c, f) ==
  IF c.safety < 20
  THEN { Failed(c, f, <<>>, "BadInput", "safety too low to consider execution") }
  ELSE IF c.executionAllowance <= 0
  THEN { Returned([c EXCEPT !.decision = "DENIED",
                            !.reason = "No execution allowance"], f, <<>>) }
  ELSE { Returned(c, f, <<>>) }

\* executionGovernorSpec.states.Score.onEnter
GovernorScoreOnEnter(c, f) ==
  IF c.decision = "DENIED" THEN { Returned(c, f, <<>>) }
  ELSE { Returned([c EXCEPT !.debug = DebugWith(@, "compositeScore", compositeScore(c))],
                  f, <<>>) }

\* what Decide.onEnter assigns: decision, reason, throttleMs
Decided(c, decision, reason, throttleMs) ==
  [c EXCEPT !.decision = decision, !.reason = reason, !.throttleMs = throttleMs]

\* variant: the floors are tested after the score
DecideScoreFirst(c, f) ==
  IF c.decision = "DENIED" THEN { Returned(c, f, <<>>) }
  ELSE
    LET score == IF DebugScore(c) /= Undef THEN DebugScore(c)[1] ELSE compositeScore(c)
        th == baseThresholds(c)
    IN { Returned(
           IF score >= th.approve
           THEN Decided(c, "APPROVED", "Score " \o ToString(score) \o " >= approve "
                                         \o ToString(th.approve), c.throttleMs)
           ELSE IF c.riskBudget < 15
           THEN Decided(c, "DENIED", "Risk budget too low", c.throttleMs)
           ELSE IF c.regimeAlignment < 25
           THEN Decided(c, "DENIED", "Regime misalignment", c.throttleMs)
           ELSE IF score >= th.throttle
           THEN Decided(c, "THROTTLED", "Score " \o ToString(score) \o " >= throttle "
                                          \o ToString(th.throttle),
                        <<IF c.regime = "COLLAPSE" THEN 30000
                          ELSE IF c.regime = "DISTRIBUTION" THEN 15000 ELSE 5000>>)
           ELSE Decided(c, "DENIED", "Score " \o ToString(score) \o " < throttle "
                                       \o ToString(th.throttle), c.throttleMs),
           f, <<>>) }

\* executionGovernorSpec.states.Decide.onEnter
DecideOnEnter(c, f) ==
  IF c.decision = "DENIED" THEN { Returned(c, f, <<>>) }
  ELSE
    LET score == IF DebugScore(c) /= Undef THEN DebugScore(c)[1] ELSE compositeScore(c)
        th == baseThresholds(c)
    IN { Returned(
           IF c.riskBudget < 15
           THEN Decided(c, "DENIED", "Risk budget too low", c.throttleMs)
           ELSE IF c.regimeAlignment < 25
           THEN Decided(c, "DENIED", "Regime misalignment", c.throttleMs)
           ELSE IF score >= th.approve
           THEN Decided(c, "APPROVED", "Score " \o ToString(score) \o " >= approve "
                                         \o ToString(th.approve), c.throttleMs)
           ELSE IF score >= th.throttle
           THEN Decided(c, "THROTTLED", "Score " \o ToString(score) \o " >= throttle "
                                          \o ToString(th.throttle),
                        <<IF c.regime = "COLLAPSE" THEN 30000
                          ELSE IF c.regime = "DISTRIBUTION" THEN 15000 ELSE 5000>>)
           ELSE Decided(c, "DENIED", "Score " \o ToString(score) \o " < throttle "
                                       \o ToString(th.throttle), c.throttleMs),
           f, <<>>) }

\* What one invocation of a hook did, as the engine sees it:
\*   [kind |-> "return", ctx]            the hook returned (after api.set calls)
\*   [kind |-> "raise", error]           it raised something other than SkillFail
\*   [kind |-> "fail", failState, note, ctx]     it called api.fail and let the
\*                                       SkillFail propagate
\*   [kind |-> "failCaught", failState, note, ctx]  it called api.fail, caught
\*                                       the SkillFail itself and returned
\* the catch around a hook: rethrow a SkillFail, else push error + api.fail
HookDone(o, phase, next) ==
  /\ ctx' = o.ctx
  /\ CASE o.kind = "return" ->
            /\ pc' = next
            /\ UNCHANGED <<trace, current, exc>>
       [] o.kind = "failCaught" ->
            LET f == ApiFail(trace, current, o.failState, o.note)
            IN /\ trace' = f.trace
               /\ current' = f.current
               /\ pc' = next
               /\ UNCHANGED exc
       [] o.kind = "fail" ->
            Throw(ApiFail(trace, current, o.failState, o.note))
       [] o.kind = "raise" ->
            Throw(HookCatch(o.error, trace, current, phase))

\* the outcomes of a hook of the family: it may set the context and return,
\* raise, or call api.fail (and let the SkillFail through, or swallow it)
HookOutcomes(c, f) ==
  { Returned(c2, f, <<>>) : c2 \in CtxValues }
    \cup { Raised(e, c, f, <<>>) : e \in HookErrors }
    \cup { [kind |-> k, ctx |-> c, fs |-> f, invoked |-> <<>>,
            failState |-> x.failState, note |-> x.note] :
             k \in {"fail", "failCaught"}, x \in HookFails }

\* stateDef.onEnter(ctx, api), by the hook the specification names
OnEnterOutcomes(h, c, f, t, vol) ==
  CASE h = "hook" -> HookOutcomes(c, f)
    [] h = "Start" -> StartOnEnter(c, f, t)
    [] h = "DetectStorage" -> DetectStorageOnEnter(c, f, vol, t)
    [] h = "LoadLastGood" -> LoadLastGoodOnEnter(c, f)
    [] h = "BuildIndex" -> BuildIndexOnEnter(c, f, t)
    [] h = "Score" -> ScoreOnEnter(c, f, t)
    [] h = "WriteAtomic" -> WriteAtomicOnEnter(c, f, t)
    [] h = "CommitPointer" -> CommitPointerOnEnter(c, f, t)
    [] h = "Publish" -> PublishOnEnter(c, f)
    [] h = "Rollback" -> RollbackOnEnter(c, f)
    [] h = "governor.Start" -> GovernorStartOnEnter(c, f)
    [] h = "governor.Guardrails" -> GuardrailsOnEnter(c, f)
    [] h = "governor.Score" -> GovernorScoreOnEnter(c, f)
    [] h = "governor.Decide" -> DecideOnEnter(c, f)

\* history entry of a hook invocation
HookCall(op, s, st, o) ==
  IF o.kind = "raise"
  THEN [op |-> op, state |-> s, step |-> st, outcome |-> o.kind, error |-> o.error]
  ELSE IF o.kind = "return"
  THEN [op |-> op, state |-> s, step |-> st, outcome |-> o.kind]
  ELSE [op |-> op, state |-> s, step |-> st, outcome |-> o.kind,
        failState |-> o.failState, note |-> o.note]

\* TRUE when the hook's commitLastGood call returned
Committed(inv) ==
  \E i \in 1..Len(inv) : inv[i].name = "commitLastGood" /\ inv[i].ok

\* if (stateDef.onEnter) { try { await stateDef.onEnter(ctx, api) } catch ... }
InvokeOnEnter ==
  /\ pc = "enter"
  /\ \E o \in OnEnterOutcomes(spec.states[stateDef].onEnter, ctx, fs, now, volume) :
       /\ HookDone(o, "onEnter", "outgoing")
       /\ calls' = Append(calls, HookCall("onEnter", stateDef, steps, o)) \o o.invoked
       /\ fs' = o.fs
       /\ lastCommit' = IF Committed(o.invoked)
                        THEN <<[indexJson |-> ctx.indexJson[1],
                                scoresJson |-> ctx.scoresJson[1]]>>
                        ELSE lastCommit
  /\ UNCHANGED <<spec, opts, steps, stateDef, ti, sel, result, escaped>>
  /\ UNCHANGED <<volume, now, run, fs0, hostVars, input, preRun, awVars>>

\* const outgoing = ...; if (!outgoing.length) api.fail("Stuck", ...)
SelectOutgoing ==
  /\ pc = "outgoing"
  /\ IF Len(Outgoing(current)) = 0
     THEN /\ Throw(ApiFail(trace, current, "Stuck",
                           "No outgoing transitions from: " \o current))
          /\ UNCHANGED ti
     ELSE /\ ti' = 1
          /\ pc' = "guard"
          /\ UNCHANGED <<trace, current, exc>>
  /\ UNCHANGED <<spec, opts, ctx, steps, stateDef, sel, result, escaped, calls>>
  /\ UNCHANGED envVars

\* variant: the exit hook is skipped
HasOnExitNever(s) == FALSE

\* if (stateDef.onExit)
HasOnExit(s) == spec.states[s].onExit /= NoHook

\* the position of transition t in spec.transitions
IndexOf(t) == CHOOSE i \in 1..Len(spec.transitions) : spec.transitions[i] = t

\* one round of  for (const t of outgoing) { guard; if (ok) {...; break} }
\* and, after the last round, if (!moved) api.fail("GuardsBlocked", ...)
EvalGuard ==
  /\ pc = "guard"
  /\ LET outgoing == Outgoing(current)
         t == outgoing[ti]
         ok == IF t.guard /= NoGuard THEN GuardOk(t.guard, ctx) ELSE TRUE
         t1 == IF t.guard /= NoGuard
               THEN Append(trace, [type |-> "guard", state |-> current, to |-> t.to,
                                   label |-> t.label, guardResult |-> ok])
               ELSE trace
     IN /\ calls' = IF t.guard /= NoGuard
                    THEN Append(calls, [op |-> "guard", state |-> current,
                                        step |-> steps, idx |-> IndexOf(t)])
                    ELSE calls
        /\ IF ok
           THEN IF HasOnExit(stateDef)
                THEN /\ trace' = Append(t1, [type |-> "exit", state |-> current])
                     /\ sel' = t
                     /\ pc' = "exit"
                     /\ UNCHANGED <<current, ti, exc>>
                ELSE /\ trace' = Append(t1, [type |-> "transition", from |-> current,
                                             to |-> t.to, label |-> t.label])
                     /\ current' = t.to
                     /\ sel' = t
                     /\ pc' = "loop"
                     /\ UNCHANGED <<ti, exc>>
           ELSE IF ti < Len(outgoing)
                THEN /\ ti' = ti + 1
                     /\ trace' = t1
                     /\ UNCHANGED <<current, sel, pc, exc>>
                ELSE /\ Throw(ApiFail(t1, current, "GuardsBlocked",
                                      "All guards blocked transitions from: " \o current))
                     /\ UNCHANGED <<ti, sel>>
  /\ UNCHANGED <<spec, opts, ctx, steps, stateDef, result, escaped>>
  /\ UNCHANGED envVars

\* try { push exit; await stateDef.onExit(ctx, api) } catch ...;
\* push transition; current = t.to; moved = true; break
InvokeOnExit ==
  /\ pc = "exit"
  /\ spec.states[stateDef].onExit = "hook"
  /\ \E o \in HookOutcomes(ctx, fs) :
       /\ calls' = Append(calls, HookCall("onExit", stateDef, steps, o))
       /\ ctx' = o.ctx
       /\ IF o.kind \in {"return", "failCaught"}
          THEN LET f == ApiFail(trace, current, o.failState, o.note)
                   tr == IF o.kind = "failCaught" THEN f.trace ELSE trace
                   cur == IF o.kind = "failCaught" THEN f.current ELSE current
               IN /\ trace' = Append(tr, [type |-> "transition", from |-> cur,
                                          to |-> sel.to, label |-> sel.label])
                  /\ current' = sel.to
                  /\ pc' = "loop"
                  /\ UNCHANGED exc
          ELSE IF o.kind = "fail"
          THEN Throw(ApiFail(trace, current, o.failState, o.note))
          ELSE Throw(HookCatch(o.error, trace, current, "onExit"))
  /\ UNCHANGED <<spec, opts, steps, stateDef, ti, sel, result, escaped>>
  /\ UNCHANGED envVars

\* } catch (e) { ...; return { ok: false, ... } }
Catch ==
  /\ pc = "catch"
  /\ LET r == OuterCatch(exc, current, trace, steps, ctx)
     IN /\ escaped' = r.rejected
        /\ result' = IF r.rejected THEN result ELSE r.value
        /\ trace' = IF r.rejected THEN trace ELSE r.value.trace
  /\ pc' = "done"
  /\ UNCHANGED <<spec, opts, ctx, current, steps, stateDef, ti, sel, exc, calls>>
  /\ UNCHANGED envVars

NoValue == "none"
NoRecord == <<>>
NoException == [name |-> "none", failState |-> "none"]

\* runSkill(spec, ctx, opts) up to the try
EngineStart(sp, c, o) ==
  /\ spec' = sp
  /\ ctx' = c
  /\ opts' = o
  /\ current' = sp.start
  /\ steps' = 0
  /\ trace' = <<>>
  /\ pc' = "loop"
  /\ stateDef' = NoValue
  /\ ti' = 0
  /\ sel' = NoRecord
  /\ exc' = NoException
  /\ result' = NoRecord
  /\ escaped' = FALSE
  /\ calls' = <<>>

EngineInit(sp, c, o) ==
  /\ spec = sp
  /\ ctx = c
  /\ opts = o
  /\ current = sp.start
  /\ steps = 0
  /\ trace = <<>>
  /\ pc = "loop"
  /\ stateDef = NoValue
  /\ ti = 0
  /\ sel = NoRecord
  /\ exc = NoException
  /\ result = NoRecord
  /\ escaped = FALSE
  /\ calls = <<>>

NoFiles == [q \in {} |-> Undef]

\* ------------------------------------------------------------------------
\* The engine on a family of specifications
\* ------------------------------------------------------------------------
\* the allowlists explored: none, one that leaves out C and Ghost, and one
\* that names the working states A and B only
AllowedChoices == {<<>>, <<{"A", "B", "T", "F"}>>, <<{"A", "B"}>>}

Init ==
  /\ \E sp \in SpecFamily, c \in CtxValues, a \in AllowedChoices,
        m \in {<<n>> : n \in 0..MaxStepsBound} \cup {<<>>} :
       /\ (m = <<>> => sp \in {LoopSpec, TrivialSpec} /\ c = 0 /\ a = <<>>)
       /\ EngineInit(sp, c, [maxSteps |-> m, allowedStates |-> a])
  /\ fs = NoFiles
  /\ volume = "ok"
  /\ now = 0
  /\ run = 0
  /\ fs0 = NoFiles
  /\ input = ctx
  /\ preRun = NoFiles
  /\ lastCommit = Undef
  /\ AwIdle
  /\ HostIdle

Next ==
  \/ RunLoop
  \/ InvokeOnEnter
  \/ SelectOutgoing
  \/ EvalGuard
  \/ InvokeOnExit
  \/ Catch

Spec == Init /\ [][Next]_vars

\* ------------------------------------------------------------------------
\* Consecutive runs of the refresh pipeline on one data directory
\* ------------------------------------------------------------------------
\* runSkill(refreshPipelineAtomicSpec, ctx, { maxSteps: 80 })
RefreshMaxSteps == 80

\* the ctx that tick builds
RefreshCtx(mode, adapters, baseDir) ==
  [mode |-> mode, intervalTag |-> "timer", now |-> Undef,
   baseDir |-> baseDir, dataDir |-> "/data",
   indexPath |-> IndexPath, scoresPath |-> ScoresPath, lastGoodPath |-> LastGoodPath,
   hasVolume |-> Undef, canWrite |-> Undef, indexJson |-> Undef, scoresJson |-> Undef,
   indexCount |-> Undef, scoredCount |-> Undef, wrote |-> Undef, published |-> Undef,
   lastGood |-> Undef, pendingBackups |-> Undef, note |-> <<>>, errorCode |-> NoOpt,
   adapters |-> adapters]

AllRequired == {RequiredAdapters[i] : i \in 1..Len(RequiredAdapters)}

\* the deployments explored: mode, adapters, baseDir
Deployments ==
  { <<"LOCAL_ONLY", AllRequired \cup {"publish"}, "/app">>,
    <<"PUBLISH_IF_AVAILABLE", AllRequired, "/app">>,
    <<"PUBLISH_IF_AVAILABLE", AllRequired \cup {"publish"}, "/app">>,
    <<"PUBLISH_IF_AVAILABLE", AllRequired \cup {"customPublish"}, "/app">>,
    <<"LOCAL_ONLY", AllRequired \cup {"customCheckVolume"}, "/app">>,
    <<"LOCAL_ONLY", AllRequired \ {"rollback"}, "/app">>,
    <<"LOCAL_ONLY", AllRequired \cup {"publish"}, "">> }

\* artifacts left by an earlier deployment
OldIndex == JsonText([updatedAt |-> -1, eventCount |-> 1])
OldScores == JsonText([updatedAt |-> -1, totalAgents |-> 1])
OldPointer == JsonText([updatedAt |-> -1, indexPath |-> IndexPath, scoresPath |-> ScoresPath,
                        indexBackupPath |-> Undef, scoresBackupPath |-> Undef])

\* the data directories explored: empty, artifacts only, artifacts and pointer
InitialFiles ==
  { NoFiles,
    WriteFile(WriteFile(NoFiles, IndexPath, OldIndex), ScoresPath, OldScores),
    WriteFile(WriteFile(WriteFile(NoFiles, IndexPath, OldIndex), ScoresPath, OldScores),
              LastGoodPath, OldPointer) }

Volumes == {"ok", "missing", "readonly"}

PipelineInit ==
  /\ \E d \in Deployments :
       EngineInit(refreshPipelineAtomicSpec, RefreshCtx(d[1], d[2], d[3]),
                  [maxSteps |-> <<RefreshMaxSteps>>, allowedStates |-> <<>>])
  /\ fs \in InitialFiles
  /\ volume \in Volumes
  /\ now = 0
  /\ run = 1
  /\ fs0 = fs
  /\ input = ctx
  /\ preRun = fs
  /\ lastCommit = Undef
  /\ AwIdle
  /\ HostIdle

\* the next tick: a new ctx and a new call of runSkill, once the last one ended
NewRun ==
  /\ pc = "done"
  /\ run < MaxRuns
  /\ run' = run + 1
  /\ now' \in {now, now + 1}
  /\ volume' \in Volumes
  /\ preRun' = fs
  /\ EngineStart(refreshPipelineAtomicSpec, RefreshCtx(ctx.mode, ctx.adapters, ctx.baseDir),
                 [maxSteps |-> <<RefreshMaxSteps>>, allowedStates |-> <<>>])
  /\ input' = ctx'
  /\ UNCHANGED <<fs, fs0, hostVars, lastCommit, awVars>>

PipelineNext ==
  \/ RunLoop
  \/ InvokeOnEnter
  \/ SelectOutgoing
  \/ EvalGuard
  \/ Catch
  \/ NewRun

SpecPipeline == PipelineInit /\ [][PipelineNext]_vars

\* the data directories an earlier run (at time 0, one event indexed) may
\* have left from directory f: whatever its writeAtomic and commitLastGood
\* did, returning or raising
LeftByRun(f) ==
  LET c == [RefreshCtx("LOCAL_ONLY", AllRequired, "/app") EXCEPT
              !.indexJson = <<[updatedAt |-> 0, eventCount |-> 1]>>,
              !.scoresJson = <<[updatedAt |-> 0, totalAgents |-> 1]>>]
  IN UNION { IF w.ok
             THEN { r.fs : r \in commitLastGood(
                                   [c EXCEPT !.pendingBackups = <<w.value.backups>>],
                                   w.fs, 0) }
             ELSE { w.fs } :
             w \in writeAtomic(c, f, 0) }

RunDirectories == InitialFiles \cup UNION { LeftByRun(f) : f \in InitialFiles }

PipelineRunInit ==
  /\ \E d \in Deployments :
       EngineInit(refreshPipelineAtomicSpec, RefreshCtx(d[1], d[2], d[3]),
                  [maxSteps |-> <<RefreshMaxSteps>>, allowedStates |-> <<>>])
  /\ fs \in RunDirectories
  /\ volume \in Volumes
  /\ now \in {0, 1}
  /\ run = 1
  /\ fs0 = fs
  /\ input = ctx
  /\ preRun = fs
  /\ lastCommit = Undef
  /\ AwIdle
  /\ HostIdle

\* one run of the pipeline, from every data directory and deployment explored
PipelineRunNext ==
  \/ RunLoop
  \/ InvokeOnEnter
  \/ SelectOutgoing
  \/ EvalGuard
  \/ Catch

SpecPipelineRun == PipelineRunInit /\ [][PipelineRunNext]_vars

\* ------------------------------------------------------------------------
\* atomicWriteJson step by step, with interruptions and concurrent readers
\* ------------------------------------------------------------------------
\* the targets written and the objects written to them
AwTargets == {IndexPath, LastGoodPath}
AwObjects == { [updatedAt |-> 1, eventCount |-> 0], [updatedAt |-> 2, eventCount |-> 1] }

TargetContents(f) == [p \in AwTargets |-> IF p \in DOMAIN f THEN <<f[p]>> ELSE Undef]

AwRunning == aw.pc \in {"open", "write", "sync", "close", "rename"}

\* atomicWriteJson(targetPath, obj): ensureDir, the tmp name, JSON.stringify
AwCall ==
  /\ ~AwRunning
  /\ aw.n < MaxWrites
  /\ \E p \in AwTargets, o \in AwObjects, t \in {now, now + 1} :
       /\ now' = t
       /\ aw' = [pc |-> "open", n |-> aw.n + 1, targetPath |-> p, obj |-> o,
                 tmp |-> TmpPath(p, t), pre |-> TargetContents(fs), renamed |-> FALSE]
  /\ UNCHANGED <<fs, dirty, seen>>
  /\ UNCHANGED <<engineVars, volume, run, fs0, hostVars, input, preRun, lastCommit>>

\* const fh = await fs.open(tmp, "w"): the file exists and is empty
AwOpen ==
  /\ aw.pc = "open"
  /\ fs' = WriteFile(fs, aw.tmp, CutText(aw.obj))
  /\ dirty' = dirty \cup {aw.tmp}
  /\ aw' = [aw EXCEPT !.pc = "write"]
  /\ UNCHANGED <<seen, engineVars, volume, now, run, fs0, hostVars, input, preRun, lastCommit>>

\* await fh.writeFile(data, "utf8")
AwWrite ==
  /\ aw.pc = "write"
  /\ fs' = WriteFile(fs, aw.tmp, JsonText(aw.obj))
  /\ aw' = [aw EXCEPT !.pc = "sync"]
  /\ UNCHANGED <<dirty, seen, engineVars, volume, now, run, fs0, hostVars, input, preRun, lastCommit>>

\* variant: the data is not synced before the rename
AwSyncSkipped ==
  /\ aw.pc = "sync"
  /\ aw' = [aw EXCEPT !.pc = "close"]
  /\ UNCHANGED <<fs, dirty, seen, engineVars, volume, now, run, fs0, hostVars, input, preRun, lastCommit>>

\* await fh.sync()
AwSync ==
  /\ aw.pc = "sync"
  /\ dirty' = dirty \ {aw.tmp}
  /\ aw' = [aw EXCEPT !.pc = "close"]
  /\ UNCHANGED <<fs, seen, engineVars, volume, now, run, fs0, hostVars, input, preRun, lastCommit>>

\* finally { await fh.close() }
AwClose ==
  /\ aw.pc = "close"
  /\ aw' = [aw EXCEPT !.pc = "rename"]
  /\ UNCHANGED <<fs, dirty, seen, engineVars, volume, now, run, fs0, hostVars, input, preRun, lastCommit>>

\* await fs.rename(tmp, targetPath); return
AwRename ==
  /\ aw.pc = "rename"
  /\ fs' = Rename(fs, aw.tmp, aw.targetPath)
  /\ dirty' = (dirty \ {aw.tmp, aw.targetPath})
                \cup (IF aw.tmp \in dirty THEN {aw.targetPath} ELSE {})
  /\ aw' = [aw EXCEPT !.pc = "returned", !.renamed = TRUE]
  /\ UNCHANGED <<seen, engineVars, volume, now, run, fs0, hostVars, input, preRun, lastCommit>>

\* one of the awaited calls raises: the call ends without the later steps
\* (a failed writeFile or sync still closes the handle)
AwRaise ==
  /\ AwRunning
  /\ aw' = [aw EXCEPT !.pc = "raised"]
  /\ UNCHANGED <<fs, dirty, seen, engineVars, volume, now, run, fs0, hostVars, input, preRun, lastCommit>>

\* the process is interrupted (killed, or the machine loses power): data
\* that was never synced may be cut short
Interrupt ==
  /\ AwRunning \/ (aw.pc = "returned" /\ dirty /= {})
  /\ \E lost \in SUBSET dirty :
       fs' = [p \in DOMAIN fs |-> IF p \in lost THEN CutText(fs[p].text) ELSE fs[p]]
  /\ dirty' = {}
  /\ aw' = [aw EXCEPT !.pc = "killed"]
  /\ UNCHANGED <<seen, engineVars, volume, now, run, fs0, hostVars, input, preRun, lastCommit>>

\* a reader opens and reads a target path (another process, at any time)
ReaderRead ==
  /\ aw.pc /= "idle"
  /\ \E p \in AwTargets :
       seen' = seen \cup {[path |-> p, content |-> TargetContents(fs)[p]]}
  /\ seen' /= seen
  /\ UNCHANGED <<fs, dirty, aw, engineVars, volume, now, run, fs0, hostVars, input, preRun, lastCommit>>

AtomicInit ==
  /\ EngineInit(TrivialSpec, 0, [maxSteps |-> <<>>, allowedStates |-> <<>>])
  /\ fs \in InitialFiles
  /\ volume = "ok"
  /\ now = 0
  /\ run = 0
  /\ fs0 = fs
  /\ input = ctx
  /\ preRun = fs
  /\ lastCommit = Undef
  /\ AwIdle
  /\ HostIdle

AtomicNext ==
  \/ AwCall
  \/ AwOpen
  \/ AwWrite
  \/ AwSync
  \/ AwClose
  \/ AwRename
  \/ AwRaise
  \/ Interrupt
  \/ ReaderRead

SpecAtomic == AtomicInit /\ [][AtomicNext]_vars

\* ------------------------------------------------------------------------
\* Runs of the execution governor
\* ------------------------------------------------------------------------
\* the ExecutionGovernorCtx of a GovernorInput
GovernorCtx(action, regime, mode, sig) ==
  [action |-> action, regime |-> regime, mode |-> mode,
   safety |-> sig[1], conviction |-> sig[2], regimeAlignment |-> sig[3],
   riskBudget |-> sig[4], executionAllowance |-> sig[5],
   decision |-> NoOpt, reason |-> NoOpt, throttleMs |-> Undef, debug |-> Undef]

\* the signals explored: around the floors, outside 0..100, and the values
\* of the integration test
SafetyValues == {10, 19, 20, 57, 90, 130}
ConvictionValues == {20, 80, 83}
AlignmentValues == {15, 24, 25, 60, 85}
RiskValues == {5, 14, 15, 48, 75}
AllowanceValues == {-10, 0, 1, 56, 100}

GovernorSignals ==
  SafetyValues \X ConvictionValues \X AlignmentValues \X RiskValues \X AllowanceValues

GovernorRegimes == {"ACCUMULATION", "DISTRIBUTION", "COLLAPSE", "UNKNOWN"}
GovernorModes == {"PUBLIC", "PRIVATE", "INTERNAL", NoOpt}

\* the inputs explored: every combination of signals, regime and mode, and
\* inputs without an action or a regime
GovernorInputs ==
  { GovernorCtx("trade.execute", rg, m, sig) :
      rg \in GovernorRegimes, m \in GovernorModes, sig \in GovernorSignals }
  \cup { GovernorCtx(x[1], x[2], "PRIVATE", <<90, 80, 85, 75, e>>) :
           x \in {<<"", "ACCUMULATION">>, <<"trade.execute", "">>}, e \in {0, 100} }

GovernorInit ==
  /\ \E c \in GovernorInputs :
       EngineInit(executionGovernorSpec, c, [maxSteps |-> <<>>, allowedStates |-> <<>>])
  /\ fs = NoFiles
  /\ volume = "ok"
  /\ now = 0
  /\ run = 0
  /\ fs0 = NoFiles
  /\ input = ctx
  /\ preRun = NoFiles
  /\ lastCommit = Undef
  /\ AwIdle
  /\ HostIdle

GovernorNext ==
  \/ RunLoop
  \/ InvokeOnEnter
  \/ SelectOutgoing
  \/ EvalGuard
  \/ Catch

SpecGovernor == GovernorInit /\ [][GovernorNext]_vars

\* ------------------------------------------------------------------------
\* store/traceStore.ts: strings, identifiers, JSON
\* ------------------------------------------------------------------------
\* A string the store takes apart is the sequence of its characters.
\* The characters of the specification names explored:
Chars(n) ==
  CASE n = "survivor.scan_mint" ->
         <<"s", "u", "r", "v", "i", "v", "o", "r", ".", "s", "c", "a", "n", "_", "m", "i", "n", "t">>
    [] n = "survivor.execution_governor" ->
         <<"s", "u", "r", "v", "i", "v", "o", "r", ".", "e", "x", "e", "c", "u", "t", "i", "o", "n", "_", "g", "o", "v", "e", "r", "n", "o", "r">>
    [] n = "verity.refresh_pipeline_atomic" ->
         <<"v", "e", "r", "i", "t", "y", ".", "r", "e", "f", "r", "e", "s", "h", "_", "p", "i", "p", "e", "l", "i", "n", "e", "_", "a", "t", "o", "m", "i", "c">>
    [] n = "test.loop" ->
         <<"t", "e", "s", "t", ".", "l", "o", "o", "p">>
    [] n = "test.branch" ->
         <<"t", "e", "s", "t", ".", "b", "r", "a", "n", "c", "h">>
    [] n = "test.missing" ->
         <<"t", "e", "s", "t", ".", "m", "i", "s", "s", "i", "n", "g">>
    [] n = "test.trivial" ->
         <<"t", "e", "s", "t", ".", "t", "r", "i", "v", "i", "a", "l">>
    [] n = "test.gated" ->
         <<"t", "e", "s", "t", ".", "g", "a", "t", "e", "d">>
    [] n = "trade.execute" ->
         <<"t", "r", "a", "d", "e", ".", "e", "x", "e", "c", "u", "t", "e">>
    [] n = "trade.public_post" ->
         <<"t", "r", "a", "d", "e", ".", "p", "u", "b", "l", "i", "c", "_", "p", "o", "s", "t">>
    [] n = "public" ->
         <<"p", "u", "b", "l", "i", "c">>
    [] n = "" -> <<>>

\* the characters that occur in file names, in the order of their UTF-16
\* code units ("." 46, digits 48-57, "_" 95, letters 97-122)
CodeOrder ==
  <<".", "0", "1", "2", "3", "4", "5", "6", "7", "8", "9", "_", "a", "b", "c", "d", "e", "f", "g", "h", "i", "j", "k", "l", "m", "n", "o", "p", "q", "r", "s", "t", "u", "v", "w", "x", "y", "z">>

Code(ch) == CHOOSE i \in 1..Len(CodeOrder) : CodeOrder[i] = ch

\* a < b as Array.prototype.sort() compares two strings
StrLess(a, b) ==
  \E i \in 1..(Len(a) + 1) :
    /\ i <= Len(b)
    /\ \A j \in 1..(i - 1) : a[j] = b[j]
    /\ (i = Len(a) + 1 \/ Code(a[i]) < Code(b[i]))

\* the elements of the set S of strings, .sort()
RECURSIVE Sorted(_)
Sorted(S) ==
  IF S = {} THEN <<>>
  ELSE LET m == CHOOSE x \in S : \A y \in S \ {x} : StrLess(x, y)
       IN <<m>> \o Sorted(S \ {m})

\* .reverse()
Reverse(q) == [i \in 1..Len(q) |-> q[Len(q) + 1 - i]]

\* .slice(0, n)
Slice(q, n) == SubSeq(q, 1, IF n < Len(q) THEN n ELSE Len(q))

\* .slice(n)
SliceFrom(q, n) == SubSeq(q, n + 1, Len(q))

\* s.includes(sub)
Includes(s, sub) ==
  \E i \in 1..(Len(s) - Len(sub) + 1) : SubSeq(s, i, i + Len(sub) - 1) = sub

\* s.endsWith(suf)
EndsWith(s, suf) ==
  Len(suf) <= Len(s) /\ SubSeq(s, Len(s) - Len(suf) + 1, Len(s)) = suf

\* s.split(".")
RECURSIVE SplitDots(_)
SplitDots(s) ==
  IF \A i \in 1..Len(s) : s[i] /= "."
  THEN <<s>>
  ELSE LET i == CHOOSE k \in 1..Len(s) : s[k] = "." /\ \A j \in 1..(k - 1) : s[j] /= "."
       IN <<SubSeq(s, 1, i - 1)>> \o SplitDots(SubSeq(s, i + 1, Len(s)))

\* parts.join(sep)
RECURSIVE Join(_, _)
Join(parts, sep) ==
  IF Len(parts) = 0 THEN <<>>
  ELSE IF Len(parts) = 1 THEN parts[1]
  ELSE parts[1] \o sep \o Join(Tail(parts), sep)

Base36Digits ==
  <<"0", "1", "2", "3", "4", "5", "6", "7", "8", "9", "a", "b", "c", "d", "e", "f", "g", "h", "i", "j", "k", "l", "m", "n", "o", "p", "q", "r", "s", "t", "u", "v", "w", "x", "y", "z">>

\* n.toString(36)
RECURSIVE ToBase36(_)
ToBase36(n) ==
  IF n < 36 THEN <<Base36Digits[n + 1]>>
  ELSE ToBase36(n \div 36) \o <<Base36Digits[(n % 36) + 1]>>

\* crypto.randomBytes(2).toString("hex"): the values explored
RandHex == { <<"3", "f", "7", "c">>, <<"0", "0", "a", "1">> }

\* generateTraceId(skillName), at time t with random suffix rnd
generateTraceId(skillName, t, rnd) ==
  LET parts == SplitDots(skillName)
      short == Join([i \in 1..Len(parts) |-> Slice(parts[i], 4)], <<"_">>)
  IN short \o <<".">> \o ToBase36(t) \o <<".">> \o rnd

\* JavaScript values: [kind, val]
JsUndefined == [kind |-> "undefined"]
JsNull == [kind |-> "null"]
JsFunction == [kind |-> "function"]
JsNaN == [kind |-> "nan"]
JsNum(n) == [kind |-> "number", val |-> n]
JsStr(x) == [kind |-> "string", val |-> x]
JsBool(b) == [kind |-> "boolean", val |-> b]
JsObj(f) == [kind |-> "object", val |-> f]
JsArr(q) == [kind |-> "array", val |-> q]
\* an object that refers to itself
JsCyclic == [kind |-> "cyclic"]

\* JSON.parse(JSON.stringify(v)) for a value v that JSON.stringify accepts:
\* members that are undefined or functions are left out of an object and
\* become null in an array, NaN becomes null
RECURSIVE JsonCopy(_)
JsonCopy(v) ==
  CASE v.kind = "object" ->
         JsObj([k \in { x \in DOMAIN v.val : v.val[x].kind \notin {"undefined", "function"} }
                  |-> JsonCopy(v.val[k])])
    [] v.kind = "array" ->
         JsArr([i \in 1..Len(v.val) |->
                  IF v.val[i].kind \in {"undefined", "function"}
                  THEN JsNull ELSE JsonCopy(v.val[i])])
    [] v.kind = "nan" -> JsNull
    [] OTHER -> v

\* summarizeCtx(ctx) for the members c of ctx
summarizeCtx(c) ==
  [k \in { x \in DOMAIN c : x /= "adapters" /\ c[x].kind /= "function" } |->
     IF c[k].kind = "cyclic" THEN JsStr("[non-serializable]")
     ELSE IF c[k].kind = "object" THEN JsonCopy(c[k])
     ELSE c[k]]

\* TraceStore.record up to the write: the TraceSummary as JSON.stringify
\* writes it and JSON.parse reads it back
SummaryOf(r, id, t) ==
  [trace_id |-> id, skill |-> r.skill.name, version |-> r.skill.version,
   ok |-> r.ok, startState |-> r.startState, endState |-> r.endState,
   steps |-> r.steps, ts |-> t,
   ctx_summary |-> JsonCopy(JsObj(summarizeCtx(r.ctx))).val,
   trace |-> r.trace]

JsonSuffix == <<".", "j", "s", "o", "n">>

\* `${filepath}.tmp.${process.pid}` (one process)
TraceTmp(name) == name \o <<".", "t", "m", "p", ".", "7">>

\* TraceStore.record(result) on the directory d (absent: <<>>), the
\* identifier generated at time t1, the summary at time t2; when writeFile
\* or rename raises, the tmp file stays behind (nothing reads its content)
record(d, r, t1, t2, rnd) ==
  LET id == generateTraceId(Chars(r.skill.name), t1, rnd)
      filename == id \o JsonSuffix
      tmp == TraceTmp(filename)
      text == JsonText(SummaryOf(r, id, t2))
  IN IF d = <<>>
     THEN { [kind |-> "raise", error |-> IoError("ENOENT"), dir |-> d] }
     ELSE { [kind |-> "raise", error |-> IoError(e),
             dir |-> <<WriteFile(d[1], tmp, CutText(text.text))>>] :
              e \in {"writeFile", "rename"} } \cup
          { [kind |-> "return", value |-> id, summary |-> text.text,
             dir |-> <<WriteFile(Unlink(d[1], tmp), filename, text)>>] }

\* TraceStore.get(trace_id): the record, or <<>> for null
get(d, id) ==
  LET filename == id \o JsonSuffix
  IN IF d /= <<>> /\ filename \in DOMAIN d[1] /\ d[1][filename].complete
     THEN <<d[1][filename].text>>
     ELSE <<>>

DefaultLimit == 50

\* the file names TraceStore.list selects, in the order of the result
listFiles(d, o) ==
  LET limit == IF o.limit = <<>> THEN DefaultLimit ELSE o.limit[1]
      json == { f \in DOMAIN d[1] : EndsWith(f, JsonSuffix) }
      kept == { f \in json : o.skill /= <<>> => Includes(f, o.skill[1]) }
  IN Slice(Reverse(Sorted(kept)), limit)

\* TraceStore.list(opts): opts = [limit, skill], each absent (<<>>) or <<v>>;
\* files that cannot be read or parsed are left out
list(d, o) ==
  IF d = <<>> THEN <<>>
  ELSE LET files == listFiles(d, o)
           read == SelectSeq(files, LAMBDA f : d[1][f].complete)
       IN [i \in 1..Len(read) |-> d[1][read[i]].text]

DefaultKeep == 200

\* the key TraceStore.prune groups a file name by
pruneKey(f) == Join(Slice(SplitDots(f), 2), <<".">>)

\* the files TraceStore.prune(keepPerSkill) tries to delete
pruneTargets(d, keep) ==
  LET files == Reverse(Sorted({ f \in DOMAIN d[1] : EndsWith(f, JsonSuffix) }))
      keys == { pruneKey(files[i]) : i \in 1..Len(files) }
      group(k) == SelectSeq(files, LAMBDA f : pruneKey(f) = k)
  IN UNION { { SliceFrom(group(k), keep)[i] : i \in 1..Len(SliceFrom(group(k), keep)) } :
             k \in keys }

\* TraceStore.prune(keepPerSkill): an unlink that fails is passed over
prune(d, keep) ==
  IF d = <<>> THEN { [deleted |-> 0, failed |-> {}, dir |-> d] }
  ELSE { [deleted |-> Cardinality(gone),
          failed |-> pruneTargets(d, keep) \ gone,
          dir |-> <<[f \in DOMAIN d[1] \ gone |-> d[1][f]]>>] :
         gone \in SUBSET pruneTargets(d, keep) }

\* ------------------------------------------------------------------------
\* Calls of the trace store on one traces directory
\* ------------------------------------------------------------------------
DoneTrace(s, note) == <<[type |-> "done", state |-> s, note |-> note]>>

\* the RunResults recorded: a scan, a governor run whose safety signal was
\* missing (clamp gave NaN), a pipeline run
TraceResults ==
  { [ok |-> TRUE, skill |-> [name |-> "survivor.scan_mint", version |-> "0.1.0"],
     startState |-> "Start", endState |-> "Return", steps |-> 3,
     trace |-> DoneTrace("Return", "ok"),
     ctx |-> [k \in {"mint", "label", "score"} |->
                CASE k = "mint" -> JsStr("abc123")
                  [] k = "label" -> JsStr("SAFE")
                  [] k = "score" -> JsNum(30)]],
    [ok |-> FALSE, skill |-> [name |-> "survivor.execution_governor", version |-> "0.1.0"],
     startState |-> "Start", endState |-> "Denied", steps |-> 4,
     trace |-> DoneTrace("Denied", "ok"),
     ctx |-> [k \in {"action", "safety", "riskBudget", "reason", "debug"} |->
                CASE k = "action" -> JsStr("trade.execute")
                  [] k = "safety" -> JsNaN
                  [] k = "riskBudget" -> JsNum(5)
                  [] k = "reason" -> JsStr("Risk budget too low")
                  [] k = "debug" -> JsObj([n \in {"normalized"} |-> JsBool(TRUE)])]],
    [ok |-> TRUE, skill |-> [name |-> "verity.refresh_pipeline_atomic", version |-> "0.1.0"],
     startState |-> "Start", endState |-> "Done", steps |-> 9,
     trace |-> DoneTrace("Done", "ok"),
     ctx |-> [k \in {"mode", "hasVolume", "note", "lastGood", "wrote", "adapters", "onRun"} |->
                CASE k = "mode" -> JsStr("LOCAL_ONLY")
                  [] k = "hasVolume" -> JsBool(TRUE)
                  [] k = "note" -> JsUndefined
                  [] k = "lastGood" -> JsNull
                  [] k = "wrote" -> JsArr(<<JsStr("index.json")>>)
                  [] k = "adapters" -> JsObj([n \in {"checkVolume"} |-> JsFunction])
                  [] k = "onRun" -> JsFunction]] }

\* the filters explored: a specification-name prefix, the short prefix of
\* the identifiers
ListSkills == { <<>>, <<<<"s", "u", "r", "v", "i", "v", "o", "r">>>>, <<<<"v", "e", "r", "i", "t", "y">>>>,
                <<<<"s", "u", "r", "v">>>> }

ListOpts == { [limit |-> l, skill |-> k] : l \in {<<>>, <<1>>}, k \in ListSkills }

\* an identifier of the store's format that no call of record returned
StrayId == generateTraceId(Chars("test.loop"), 0, <<"f", "f", "f", "f">>)

RecordedIds == { recorded[i][1] : i \in { j \in 1..Len(recorded) : recorded[j] /= <<>> } }

TsFrame == UNCHANGED <<engineVars, fs, volume, run, fs0, input, preRun, lastCommit,
                       awVars, shVars, tmVars>>

\* initTraceStore(dataDir)
TsInitStore ==
  /\ ~store
  /\ store' = TRUE
  /\ last' = [name |-> "initTraceStore"]
  /\ UNCHANGED <<tracesDir, recorded, now>>
  /\ TsFrame

\* store.init(): mkdir -p
TsMkdir ==
  /\ store
  /\ tracesDir = <<>>
  /\ tracesDir' = <<NoFiles>>
  /\ last' = [name |-> "init"]
  /\ UNCHANGED <<store, recorded, now>>
  /\ TsFrame

\* store.record(result), in the millisecond of the call before it or in a
\* later one (the two reads of Date.now() of one call give the same value)
TsRecord ==
  /\ store
  /\ Len(recorded) < MaxRecords
  /\ \E r \in TraceResults, rnd \in RandHex, t \in {now, now + 1} :
       \E o \in record(tracesDir, r, t, t, rnd) :
         /\ tracesDir' = o.dir
         /\ now' = t
         /\ recorded' = Append(recorded, IF o.kind = "return" THEN <<o.value>> ELSE <<>>)
         /\ last' = IF o.kind = "return"
                    THEN [name |-> "record", kind |-> o.kind, result |-> r, value |-> o.value]
                    ELSE [name |-> "record", kind |-> o.kind, result |-> r, error |-> o.error]
  /\ UNCHANGED store
  /\ TsFrame

\* store.get(trace_id)
TsGet ==
  /\ store
  /\ \E id \in RecordedIds \cup {StrayId} :
       last' = [name |-> "get", id |-> id, value |-> get(tracesDir, id)]
  /\ UNCHANGED <<tracesDir, store, recorded, now>>
  /\ TsFrame

\* store.list(opts)
TsList ==
  /\ store
  /\ \E o \in ListOpts :
       last' = [name |-> "list", opts |-> o, value |-> list(tracesDir, o)]
  /\ UNCHANGED <<tracesDir, store, recorded, now>>
  /\ TsFrame

\* store.prune(keepPerSkill)
TsPrune ==
  /\ store
  /\ \E k \in {<<>>, <<1>>} :
       \E o \in prune(tracesDir, IF k = <<>> THEN DefaultKeep ELSE k[1]) :
         /\ tracesDir' = o.dir
         /\ last' = [name |-> "prune", keep |-> k, deleted |-> o.deleted,
                     failed |-> o.failed, before |-> tracesDir]
  /\ UNCHANGED <<store, recorded, now>>
  /\ TsFrame

TsInit ==
  /\ EngineInit(TrivialSpec, 0, [maxSteps |-> <<>>, allowedStates |-> <<>>])
  /\ fs = NoFiles
  /\ volume = "ok"
  /\ now = 0
  /\ run = 0
  /\ fs0 = fs
  /\ input = ctx
  /\ preRun = fs
  /\ lastCommit = Undef
  /\ AwIdle
  /\ HostIdle

TsNext ==
  \/ TsInitStore
  \/ TsMkdir
  \/ TsRecord
  \/ TsGet
  \/ TsList
  \/ TsPrune

SpecTrace == TsInit /\ [][TsNext]_vars

\* ------------------------------------------------------------------------
\* The refresh script with its lock file (one process per invocation)
\* ------------------------------------------------------------------------
ShStep(p, to) == sh' = [sh EXCEPT ![p].pc = to]

ShFrame == UNCHANGED <<engineVars, fs, volume, now, run, fs0, input, preRun,
                       lastCommit, awVars, tsVars, tmVars>>

\* an invocation arrives at the test of the lock file
ShArrive(p, to) ==
  sh' = [sh EXCEPT ![p] = [pc |-> to,
                           others |-> { q \in Invocations :
                                          sh[q].pc \in {"index", "score"} }]]

\* an invocation starts (cron, an operator, a deploy hook):
\* if [ -f "$LOCK" ]; then echo ...; exit 0; fi
ShTest(p) ==
  /\ sh[p].pc = "idle"
  /\ IF lock /= <<>> THEN ShArrive(p, "skipped") ELSE ShArrive(p, "trap")
  /\ UNCHANGED lock
  /\ ShFrame

\* trap 'rm -f "$LOCK"' EXIT
ShTrap(p) ==
  /\ sh[p].pc = "trap"
  /\ ShStep(p, "date")
  /\ UNCHANGED lock
  /\ ShFrame

\* date > "$LOCK"  (set -e: a failing redirection ends the script)
ShDate(p) ==
  /\ sh[p].pc = "date"
  /\ \/ lock' = <<now>> /\ ShStep(p, "index")
     \/ UNCHANGED lock /\ ShStep(p, "exit")
  /\ ShFrame

\* npm run index  (set -e: a failing step ends the script)
ShIndex(p) ==
  /\ sh[p].pc = "index"
  /\ \E to \in {"score", "exit"} : ShStep(p, to)
  /\ UNCHANGED lock
  /\ ShFrame

\* npm run score; echo
ShScore(p) ==
  /\ sh[p].pc = "score"
  /\ ShStep(p, "exit")
  /\ UNCHANGED lock
  /\ ShFrame

\* the EXIT trap: rm -f "$LOCK"
ShExit(p) ==
  /\ sh[p].pc = "exit"
  /\ lock' = <<>>
  /\ ShStep(p, "exited")
  /\ ShFrame

ShInit ==
  /\ EngineInit(TrivialSpec, 0, [maxSteps |-> <<>>, allowedStates |-> <<>>])
  /\ fs = NoFiles
  /\ volume = "ok"
  /\ now \in {0, 1}
  /\ run = 0
  /\ fs0 = fs
  /\ input = ctx
  /\ preRun = fs
  /\ lastCommit = Undef
  /\ AwIdle
  /\ HostIdle

ShNext ==
  \E p \in Invocations :
    \/ ShTest(p)
    \/ ShTrap(p)
    \/ ShDate(p)
    \/ ShIndex(p)
    \/ ShScore(p)
    \/ ShExit(p)

SpecLock == ShInit /\ [][ShNext]_vars

\* ------------------------------------------------------------------------
\* Properties
\* ------------------------------------------------------------------------
\* the content of a file, absent when there is no such file
Content(f, p) == IF p \in DOMAIN f THEN <<f[p]>> ELSE Undef

AdapterReturned(n) ==
  \E i \in 1..Len(calls) : calls[i].op = "adapter" /\ calls[i].name = n /\ calls[i].ok

AdapterRaised(n) ==
  \E i \in 1..Len(calls) : calls[i].op = "adapter" /\ calls[i].name = n /\ ~calls[i].ok

AdapterInvoked(n) == AdapterReturned(n) \/ AdapterRaised(n)

Entered(s) == \E i \in 1..Len(trace) : trace[i].type = "enter" /\ trace[i].state = s

Artifacts == {IndexPath, ScoresPath}

\* C1: whenever a pipeline run has completed, the index and the scores on
\* disk are both the ones produced by the run that last committed the
\* Last-Good Pointer, or both the pre-existing ones if no run has committed.
C1_PersistedConsistent ==
  (pc = "done" /\ spec.name = refreshPipelineAtomicSpec.name) =>
    IF lastCommit = Undef
    THEN \A p \in Artifacts : Content(fs, p) = Content(fs0, p)
    ELSE /\ Content(fs, IndexPath) = <<JsonText(lastCommit[1].indexJson)>>
         /\ Content(fs, ScoresPath) = <<JsonText(lastCommit[1].scoresJson)>>

\* C2: when a run in which writeAtomic returned and commitLastGood then
\* raised has ended, every artifact that was on disk before the run has its
\* pre-run content.
C2_RollbackRestores ==
  (pc = "done" /\ AdapterReturned("writeAtomic") /\ AdapterRaised("commitLastGood")) =>
    \A p \in Artifacts : p \in DOMAIN preRun => Content(fs, p) = Content(preRun, p)

\* C3: a run in which writeAtomic or commitLastGood raised has, when it ends,
\* entered the Rollback state, invoked the rollback adapter and ended in Done.
C3_FailedWriteRollsBackToDone ==
  (pc = "done" /\ (AdapterRaised("writeAtomic") \/ AdapterRaised("commitLastGood"))) =>
    /\ Entered("Rollback")
    /\ AdapterInvoked("rollback")
    /\ result.endState = "Done"

\* ---- atomicWriteJson ----
\* C4: at every point of a call of atomicWriteJson, interrupted or not, every
\* target holds what it held when the call began until the rename, and the
\* complete new content from the rename on; no target on disk and nothing a
\* concurrent reader found is a partially written file.
C4_AtomicWrite ==
  /\ aw.pc /= "idle" =>
       \A p \in AwTargets :
         TargetContents(fs)[p] =
           IF p = aw.targetPath /\ aw.renamed THEN <<JsonText(aw.obj)>> ELSE aw.pre[p]
  /\ \A p \in AwTargets : p \in DOMAIN fs => fs[p].complete
  /\ \A r \in seen : r.content = Undef \/ r.content[1].complete

\* interrupted before the rename with the target untouched while a cut
\* temporary file lies beside it and a reader has read the target
C4_WitnessBefore ==
  /\ aw.pc = "killed"
  /\ ~aw.renamed
  /\ aw.pre[aw.targetPath] /= Undef
  /\ aw.tmp \in DOMAIN fs /\ ~fs[aw.tmp].complete
  /\ \E r \in seen : r.path = aw.targetPath

\* ---- the engine ----
HookRaised(i) == calls[i].op \in {"onEnter", "onExit"} /\ calls[i].outcome = "raise"

\* a measure of the work a run has left: it is a natural number and every
\* step of the engine lowers it
Variant ==
  LET n == Len(spec.transitions)
      w == CASE pc = "loop" -> 0
             [] pc = "exit" -> 1
             [] pc = "guard" -> 2 + n - ti
             [] pc = "outgoing" -> 3 + n
             [] pc = "enter" -> 4 + n
  IN IF pc = "done" THEN 0
     ELSE IF pc = "catch" THEN 1
     ELSE 2 + (maxSteps + 1 - steps) * (5 + n) + w

BuiltInFail == {"EngineTimeout", "ForbiddenState", "MissingState", "ActionError",
                "Stuck", "GuardsBlocked"}

\* C5: every run halts, for every specification of the family (cyclic ones
\* included), context and step budget: each engine step lowers a measure
\* that stays a natural number, the run reaches its end, and it ends in a
\* terminal state, in a fail state (declared, built in or named by a hook),
\* and in EngineTimeout only once the step counter exceeds maxSteps.
C5_RunHalts ==
  /\ [](Variant >= 0)
  /\ [][Variant' < Variant]_vars
  /\ [](pc = "done" =>
          /\ result.endState \in spec.terminal \cup spec.fail \cup BuiltInFail
                                 \cup {x.failState : x \in HookFails}
          /\ (result.endState = "EngineTimeout" => result.steps > maxSteps))
  /\ <>(pc = "done")

C5_Witness ==
  /\ pc = "done"
  /\ spec = LoopSpec
  /\ result.endState = "EngineTimeout"
  /\ opts.maxSteps = <<MaxStepsBound>>

\* C6: the step count reported in RunResult.steps never exceeds maxSteps.
C6_StepsWithinBudget == pc = "done" => result.steps <= maxSteps

\* the first declared transition from s whose guard holds in context c
GuardHolds(t, c) == t.guard = NoGuard \/ GuardEval(t.guard, c) = "true"
Candidates(s, c) ==
  { i \in 1..Len(spec.transitions) :
      spec.transitions[i].from = s /\ GuardHolds(spec.transitions[i], c) }
FirstMatch(s, c) == CHOOSE i \in Candidates(s, c) : \A j \in Candidates(s, c) : i <= j

GuardsOfStep(cs, st) ==
  { cs[i].idx : i \in { j \in 1..Len(cs) : cs[j].op = "guard" /\ cs[j].step = st } }

\* C7: the transition the engine selects is the first declared transition
\* from the current state whose guard is true in the current context, no
\* guard of a transition declared after it is evaluated in that step, and the
\* selected transition is the one the run then follows.
C7_FirstMatch ==
  [][ /\ (pc = "guard" /\ pc' \in {"exit", "loop"}) =>
           /\ sel' = spec.transitions[FirstMatch(current, ctx)]
           /\ \A k \in GuardsOfStep(calls', steps) : k <= FirstMatch(current, ctx)
           /\ (pc' = "loop" => current' = sel'.to)
      /\ (pc = "exit" /\ pc' = "loop") => (sel' = sel /\ current' = sel.to) ]_vars

\* two guards of A hold, and the run took the one declared first (A -> B)
C7_Witness ==
  /\ spec = BranchSpec
  /\ ctx = 3
  /\ pc = "exit"
  /\ stateDef = "B"
  /\ \E i \in 1..Len(trace) :
       trace[i].type = "transition" /\ trace[i].from = "A" /\ trace[i].to = "B"

NoDeclaredOutgoing(s) ==
  \A i \in 1..Len(spec.transitions) : spec.transitions[i].from /= s

EnteredStates == { trace[i].state : i \in { j \in 1..Len(trace) : trace[j].type = "enter" } }

\* C8 as stated: a run that has entered a non-terminal state without
\* declared outgoing transitions ends in Stuck with ok = false, whatever the
\* state's enter hook does.
C8_AlwaysStuck ==
  (pc = "done" /\ \E s \in EnteredStates : ~isTerminal(s) /\ NoDeclaredOutgoing(s)) =>
    (result.endState = "Stuck" /\ ~result.ok)

\* C8 amended: once the enter hook of the step has returned (or the state
\* has none) and the current state has no declared outgoing transitions,
\* the engine fails the run with Stuck at once, evaluating no guard and
\* invoking no hook, and the run ends with endState Stuck and ok = false.
C8_StuckAfterEnter ==
  /\ [][ (pc = "outgoing" /\ NoDeclaredOutgoing(current)) =>
           /\ pc' = "catch"
           /\ exc'.name = "SkillFail" /\ exc'.failState = "Stuck"
           /\ calls' = calls ]_vars
  /\ []( (pc = "done" /\ exc.name = "SkillFail" /\ exc.failState = "Stuck") =>
           (result.endState = "Stuck" /\ ~result.ok) )

\* the enter hook of C returned and the run ended in Stuck
C8_Witness ==
  /\ pc = "done"
  /\ spec = BranchSpec
  /\ result.endState = "Stuck"
  /\ calls[Len(calls)].op = "onEnter"
  /\ calls[Len(calls)].state = "C"
  /\ calls[Len(calls)].outcome = "return"

\* C9: runSkill never rejects: whatever hooks and guards do, the call
\* resolves to a RunResult, and a run that failed reports it by ok = false
\* and by an endState outside the terminal set.
C9_NeverRaises ==
  /\ ~escaped
  /\ pc = "done" =>
       /\ result.ok \in BOOLEAN
       /\ result.steps = steps
       /\ result.endState = current
       /\ exc.name /= "none" => (~result.ok /\ result.endState = exc.failState)

\* a hook raised, a guard raised, and the call still resolved
C9_Witness ==
  /\ pc = "done"
  /\ ~escaped
  /\ ~result.ok
  /\ \E i \in 1..Len(calls) : HookRaised(i)
  /\ \E i \in 1..Len(trace) : trace[i].type = "guard" /\ trace[i].label = "ax"

\* C10: when an enter hook raises an exception other than an engine-directed
\* fail, nothing is invoked afterwards (no guard, no hook), the trace holds an
\* error event for that state with the exception's name and message ("Error"
\* and the string form for an exception without them), and the run ends with
\* endState ActionError and ok = false.
C10_EnterHookRaises ==
  \A i \in 1..Len(calls) :
    (calls[i].op = "onEnter" /\ calls[i].outcome = "raise") =>
      /\ i = Len(calls)
      /\ pc \in {"catch", "done"}
      /\ \E k \in 1..Len(trace) :
           /\ trace[k].type = "error"
           /\ trace[k].state = calls[i].state
           /\ trace[k].error.name =
                (IF calls[i].error.name = NoOpt THEN "Error" ELSE calls[i].error.name)
           /\ trace[k].error.message =
                (IF calls[i].error.message = NoOpt THEN calls[i].error.str
                 ELSE calls[i].error.message)
      /\ pc = "done" => (result.endState = "ActionError" /\ ~result.ok)

C10_Witness ==
  /\ pc = "done"
  /\ Len(calls) > 1
  /\ calls[Len(calls)].op = "onEnter"
  /\ calls[Len(calls)].outcome = "raise"
  /\ calls[Len(calls)].error.name = "TypeError"
  /\ result.endState = "ActionError"

FairSpec == Spec /\ WF_vars(Next)

\* the hook invocations in which the hook called api.fail
HookFailed(i) ==
  calls[i].op \in {"onEnter", "onExit"} /\ calls[i].outcome \in {"fail", "failCaught"}

\* C11: when a hook has called api.fail(F, note), the run ends with
\* endState = F and ok = false, no guard is evaluated and no hook invoked
\* after that call, and the trace holds a transition from the state that was
\* executing to F.
C11_FailEndsRun ==
  pc = "done" =>
    \A i \in 1..Len(calls) :
      HookFailed(i) =>
        /\ i = Len(calls)
        /\ result.endState = calls[i].failState
        /\ ~result.ok
        /\ \E k \in 1..Len(trace) :
             /\ trace[k].type = "transition"
             /\ trace[k].from = calls[i].state
             /\ trace[k].to = calls[i].failState

\* ---- the execution governor ----
IsGovernorRun == spec.name = executionGovernorSpec.name

\* the input names an action and a regime
WellFormed(c) == c.action /= "" /\ c.regime /= ""

\* C12 as stated: every input with executionAllowance <= 0 yields the
\* decision DENIED, whatever the other signals, the mode and the regime are.
C12_NoAllowanceDenied ==
  (pc = "done" /\ IsGovernorRun /\ input.executionAllowance <= 0) =>
    result.ctx.decision = "DENIED"

\* C12 amended: every input that names an action and a regime, with
\* safety >= 20 and executionAllowance <= 0, yields the decision DENIED,
\* whatever conviction, regimeAlignment, riskBudget, mode and regime are.
C12_NoAllowanceDeniedAboveFloor ==
  (pc = "done" /\ IsGovernorRun /\ WellFormed(input)
     /\ input.safety >= 20 /\ input.executionAllowance <= 0) =>
    result.ctx.decision = "DENIED"

\* no allowance, every other signal of the approve path: DENIED
C12_Witness ==
  /\ pc = "done"
  /\ IsGovernorRun
  /\ input.executionAllowance = -10
  /\ input.safety = 90 /\ input.conviction = 80
  /\ input.regimeAlignment = 85 /\ input.riskBudget = 75
  /\ result.ctx.decision = "DENIED"
  /\ result.endState = "Denied"

\* C13: for every input with safety < 20 the run fails before it reaches a
\* decision: Score and Decide are never entered, ctx.decision is never set,
\* and the run ends in a fail state with ok = false.
C13_LowSafetyFails ==
  (IsGovernorRun /\ input.safety < 20) =>
    /\ ~Entered("Score")
    /\ ~Entered("Decide")
    /\ ctx.decision = NoOpt
    /\ pc = "done" =>
         /\ ~result.ok
         /\ result.endState \in spec.fail
         /\ result.ctx.decision = NoOpt

\* safety below the floor and no allowance: the run failed in Guardrails
C13_Witness ==
  /\ pc = "done"
  /\ IsGovernorRun
  /\ input.safety = 19
  /\ input.executionAllowance = 0
  /\ Entered("Guardrails")
  /\ result.endState = "BadInput"

\* the reference decision of C16, in exact arithmetic: the composite is
\* (30s + 25r + 20c + 15b + 10e) / 100 rounded to the nearest integer, a
\* half going up
RefClamp(n) == IF n < 0 THEN 0 ELSE IF n > 100 THEN 100 ELSE n

RefComposite(c) ==
  (6 * RefClamp(c.safety) + 5 * RefClamp(c.regimeAlignment) + 4 * RefClamp(c.conviction)
     + 3 * RefClamp(c.riskBudget) + 2 * RefClamp(c.executionAllowance) + 10) \div 20

RefApprove(c) ==
  (CASE c.mode = "PUBLIC" -> 78 [] c.mode = "PRIVATE" -> 72 [] OTHER -> 68)
  + (CASE c.regime = "COLLAPSE" -> 8 [] c.regime = "DISTRIBUTION" -> 4 [] OTHER -> 0)

RefThrottle(c) ==
  (CASE c.mode = "PUBLIC" -> 62 [] c.mode = "PRIVATE" -> 55 [] OTHER -> 50)
  + (CASE c.regime = "COLLAPSE" -> 6 [] c.regime = "DISTRIBUTION" -> 3 [] OTHER -> 0)

RefDecision(c) ==
  IF RefComposite(c) >= RefApprove(c) THEN "APPROVED"
  ELSE IF RefComposite(c) >= RefThrottle(c) THEN "THROTTLED"
  ELSE "DENIED"

PassesHardGates(c) ==
  /\ c.safety >= 20
  /\ c.executionAllowance > 0
  /\ c.riskBudget >= 15
  /\ c.regimeAlignment >= 25

\* C16: for every input (naming an action and a regime) that passes the
\* hard gates the decision is the one
\* of the reference function (weighted composite of the clamped signals,
\* rounded; thresholds by mode, raised by regime).
C16_DecisionIsReference ==
  (pc = "done" /\ IsGovernorRun /\ WellFormed(input) /\ PassesHardGates(input)) =>
    result.ctx.decision = RefDecision(input)

IsPipelineRun == spec.name = refreshPipelineAtomicSpec.name

\* the states entered, in order
EnterOrder(tr) ==
  LET ev == SelectSeq(tr, LAMBDA e : e.type = "enter")
  IN [i \in 1..Len(ev) |-> ev[i].state]

AdapterCount(n) ==
  Cardinality({ i \in 1..Len(calls) : calls[i].op = "adapter" /\ calls[i].name = n })

AdapterNames == AllRequired \cup {"publish"}

NoAdapterRaised == \A n \in AdapterNames : ~AdapterRaised(n)

\* C14: when checkVolume reports a present, writable volume and no adapter
\* raises, the run enters Start, DetectStorage, LoadLastGood, EnsureWritable,
\* BuildIndex, Score, WriteAtomic, CommitPointer, Publish in that order and
\* ends in Done with ok = true, each adapter invoked at most once, for every
\* build result, the empty one included.
C14_HappyPath ==
  (pc = "done" /\ IsPipelineRun /\ ctx.hasVolume = <<TRUE>> /\ ctx.canWrite = <<TRUE>>
     /\ NoAdapterRaised) =>
    /\ result.ok
    /\ result.endState = "Done"
    /\ EnterOrder(result.trace) =
         <<"Start", "DetectStorage", "LoadLastGood", "EnsureWritable", "BuildIndex",
           "Score", "WriteAtomic", "CommitPointer", "Publish">>
    /\ \A n \in AdapterNames : AdapterCount(n) <= 1

\* an empty build result went through to Done
C14_Witness ==
  /\ pc = "done"
  /\ IsPipelineRun
  /\ result.ctx.indexCount = <<0>>
  /\ result.ctx.scoredCount = <<0>>
  /\ AdapterReturned("commitLastGood")
  /\ result.endState = "Done"
  /\ result.ok

\* C15: when checkVolume reports hasVolume = false, whatever canWrite is, the
\* run ends in NoVolume with ok = false, none of buildIndex, scoreIndex,
\* writeAtomic, commitLastGood, rollback and publish is invoked, and the
\* artifacts and the Last-Good Pointer (every file but the probe of
\* checkVolume itself) are as they were before the run.
C15_NoVolumeNoWrites ==
  (pc = "done" /\ IsPipelineRun /\ ctx.hasVolume = <<FALSE>>) =>
    /\ result.endState = "NoVolume"
    /\ ~result.ok
    /\ \A n \in {"buildIndex", "scoreIndex", "writeAtomic", "commitLastGood",
                 "rollback", "publish"} : ~AdapterInvoked(n)
    /\ \A p \in (DOMAIN fs \cup DOMAIN preRun) \ {ProbePath} :
         Content(fs, p) = Content(preRun, p)

\* no volume reported, but a writable one, over existing artifacts
C15_Witness ==
  /\ pc = "done"
  /\ IsPipelineRun
  /\ ctx.hasVolume = <<FALSE>>
  /\ ctx.canWrite = <<TRUE>>
  /\ IndexPath \in DOMAIN fs
  /\ LastGoodPath \in DOMAIN fs
  /\ result.endState = "NoVolume"

\* C18: commitLastGood is invoked only after writeAtomic has returned in the
\* same run, and a run in which buildIndex, scoreIndex or writeAtomic raised
\* leaves the Last-Good Pointer as it was.
C18_CommitAfterWrite ==
  IsPipelineRun =>
    /\ \A i \in 1..Len(calls) :
         (calls[i].op = "adapter" /\ calls[i].name = "commitLastGood") =>
           \E j \in 1..(i - 1) :
             calls[j].op = "adapter" /\ calls[j].name = "writeAtomic" /\ calls[j].ok
    /\ (AdapterRaised("buildIndex") \/ AdapterRaised("scoreIndex")
          \/ AdapterRaised("writeAtomic")) =>
         Content(fs, LastGoodPath) = Content(preRun, LastGoodPath)

\* writeAtomic raised after it had replaced the index: the pointer of the
\* earlier deployment is still the one on disk
C18_Witness ==
  /\ pc = "done"
  /\ IsPipelineRun
  /\ AdapterRaised("writeAtomic")
  /\ Content(fs, IndexPath) /= Content(preRun, IndexPath)
  /\ Content(preRun, LastGoodPath) /= Undef
  /\ Content(fs, LastGoodPath) = Content(preRun, LastGoodPath)

HasPublishAdapter(c) == c.adapters \cap {"publish", "customPublish"} /= {}

\* C19: in LOCAL_ONLY mode, or without a publish adapter, the Publish state
\* invokes no publish adapter and sets published = false, and the run ends
\* in Done with ok = true; so does a run whose publish adapter returned,
\* also with published = false.
C19_PublishOptional ==
  (pc = "done" /\ IsPipelineRun /\ Entered("Publish")) =>
    /\ (ctx.mode = "LOCAL_ONLY" \/ ~HasPublishAdapter(ctx)) =>
         /\ ~AdapterInvoked("publish")
         /\ result.ctx.published = <<FALSE>>
         /\ result.endState = "Done"
         /\ result.ok
    /\ AdapterReturned("publish") => (result.endState = "Done" /\ result.ok)

\* LOCAL_ONLY with a publish adapter configured: not invoked, run Done
C19_Witness ==
  /\ pc = "done"
  /\ IsPipelineRun
  /\ ctx.mode = "LOCAL_ONLY"
  /\ HasPublishAdapter(ctx)
  /\ Entered("Publish")
  /\ ~AdapterInvoked("publish")
  /\ result.ctx.published = <<FALSE>>
  /\ result.endState = "Done"

\* C20: when the publish adapter raises, the run ends in PublishFailed with
\* ok = false, rollback is not invoked, and the index, the scores and the
\* Last-Good Pointer the run committed are the ones on disk.
C20_PublishFailureKeepsCommit ==
  (pc = "done" /\ IsPipelineRun /\ AdapterRaised("publish")) =>
    /\ result.endState = "PublishFailed"
    /\ ~result.ok
    /\ ~AdapterInvoked("rollback")
    /\ AdapterReturned("commitLastGood")
    /\ Content(fs, IndexPath) = <<JsonText(ctx.indexJson[1])>>
    /\ Content(fs, ScoresPath) = <<JsonText(ctx.scoresJson[1])>>
    /\ Content(fs, LastGoodPath) = <<JsonText(ctx.lastGood[1])>>

\* the publish adapter raised over artifacts that the run had replaced
C20_Witness ==
  /\ pc = "done"
  /\ IsPipelineRun
  /\ AdapterRaised("publish")
  /\ ctx.mode = "PUBLISH_IF_AVAILABLE"
  /\ Content(preRun, IndexPath) /= Undef
  /\ Content(fs, IndexPath) /= Content(preRun, IndexPath)
  /\ result.endState = "PublishFailed"

\* ---- the engine: guards and the allowlist ----
\* state s has outgoing transitions and none of their guards is true in c
AllGuardsFalse(s, c) == ~NoDeclaredOutgoing(s) /\ Candidates(s, c) = {}

EventsAfter(tr, n) == { tr[i].type : i \in (n + 1)..Len(tr) }

\* C29: when the current state has outgoing transitions and no guard is true
\* (a raising guard counting as false), guard evaluation goes through the
\* transitions without invoking a hook or entering a state and fails the
\* run with GuardsBlocked; the run ends with endState GuardsBlocked and
\* ok = false.
C29_GuardsBlocked ==
  /\ [][ (pc = "guard" /\ AllGuardsFalse(current, ctx)) =>
           /\ \/ (pc' = "guard" /\ ti' = ti + 1 /\ current' = current)
              \/ (pc' = "catch" /\ ti = Len(Outgoing(current))
                    /\ exc'.name = "SkillFail" /\ exc'.failState = "GuardsBlocked")
           /\ ctx' = ctx
           /\ Len(calls') = Len(calls) + 1
           /\ calls'[Len(calls')].op = "guard"
           /\ EventsAfter(trace', Len(trace)) \cap {"enter", "exit"} = {} ]_vars
  /\ []( (pc = "done" /\ exc.name = "SkillFail" /\ exc.failState = "GuardsBlocked") =>
           /\ result.endState = "GuardsBlocked"
           /\ ~result.ok
           /\ calls[Len(calls)].op = "guard" )
  /\ (pc = "guard" /\ AllGuardsFalse(current, ctx)) ~>
       (pc = "done" /\ result.endState = "GuardsBlocked")

\* in a state with an exit hook the first guard raised and the second was
\* false: the exit hook was not invoked and the run ended in GuardsBlocked
C29_Witness ==
  /\ pc = "done"
  /\ spec = GatedSpec
  /\ spec.states["A"].onExit /= NoHook
  /\ result.endState = "GuardsBlocked"
  /\ \E i \in 1..Len(trace) :
       trace[i].type = "guard" /\ trace[i].label = "ax" /\ ~trace[i].guardResult
  /\ \A i \in 1..Len(calls) : calls[i].op /= "onExit"

\* the states that were current in the run by the start or a declared
\* transition
WasCurrent ==
  {spec.start} \cup
    { trace[i].to : i \in { j \in 1..Len(trace) :
                              trace[j].type = "transition" /\ trace[j].label /= "FAIL" } }

\* C30 as stated: a run in which a state absent from the allowlist was
\* current ends in ForbiddenState with ok = false.
C30_ForbiddenAlways ==
  (pc = "done" /\ opts.allowedStates /= <<>>
     /\ \E s \in WasCurrent : s \notin opts.allowedStates[1]) =>
    (result.endState = "ForbiddenState" /\ ~result.ok)

\* C30 amended: when a step begins within the step budget in a state that is
\* neither terminal nor a fail state and is absent from the allowlist, the
\* engine fails the run with ForbiddenState before it invokes anything, and
\* the run ends with endState ForbiddenState and ok = false; the enter hook
\* of a state absent from the allowlist is never invoked.
C30_ForbiddenAtStep ==
  /\ [][ (pc = "loop" /\ opts.allowedStates /= <<>>
            /\ current \notin opts.allowedStates[1]
            /\ current \notin spec.terminal \cup spec.fail
            /\ steps + 1 <= maxSteps) =>
           /\ pc' = "catch"
           /\ exc'.name = "SkillFail" /\ exc'.failState = "ForbiddenState"
           /\ calls' = calls ]_vars
  /\ []( (pc = "done" /\ exc.name = "SkillFail" /\ exc.failState = "ForbiddenState") =>
           (result.endState = "ForbiddenState" /\ ~result.ok) )
  /\ []( opts.allowedStates /= <<>> =>
           \A i \in 1..Len(calls) :
             calls[i].op = "onEnter" => calls[i].state \in opts.allowedStates[1] )

\* the run went from A to C, which the allowlist leaves out and which has an
\* enter hook: the hook was not invoked and the run ended in ForbiddenState
C30_Witness ==
  /\ pc = "done"
  /\ spec = BranchSpec
  /\ opts.allowedStates = <<{"A", "B", "T", "F"}>>
  /\ "C" \in WasCurrent
  /\ result.endState = "ForbiddenState"
  /\ \A i \in 1..Len(calls) : calls[i].state /= "C"

\* ---- the refresh script ----
\* C28: at most one invocation of the refresh script is running the index
\* and score steps at a time, and an invocation that started while another
\* one was running them does not run them itself.
C28_LockSerializes ==
  /\ Cardinality({ p \in Invocations : sh[p].pc \in {"index", "score"} }) <= 1
  /\ \A p \in Invocations : sh[p].pc \in {"index", "score"} => sh[p].others = {}

\* ---- the trace store ----
\* the records a traces directory holds
Records(d) ==
  IF d = <<>> THEN {}
  ELSE { d[1][f].text : f \in { x \in DOMAIN d[1] :
                                  EndsWith(x, JsonSuffix) /\ d[1][x].complete } }

Range(q) == { q[i] : i \in 1..Len(q) }

StartsWith(x, pre) == Len(pre) <= Len(x) /\ SubSeq(x, 1, Len(pre)) = pre

Min(a, b) == IF a < b THEN a ELSE b

\* C21: TraceStore.record never raises: every call returns an identifier.
C21_RecordNeverRaises == last.name = "record" => last.kind = "return"

\* C23: TraceStore.list without a filter returns the records newest first
\* by recording time, across all specifications, and when limit truncates
\* the result no omitted record is newer than a returned one.
C23_ListNewestFirst ==
  (last.name = "list" /\ last.opts.skill = <<>>) =>
    LET res == last.value
    IN /\ \A i, j \in 1..Len(res) : i < j => res[i].ts >= res[j].ts
       /\ \A d \in Records(tracesDir) \ Range(res) :
            \A i \in 1..Len(res) : d.ts <= res[i].ts

\* C24: TraceStore.list with a skill filter P returns the records whose
\* specification name starts with P and no other record, up to limit.
C24_ListByPrefix ==
  (last.name = "list" /\ last.opts.skill /= <<>>) =>
    LET res == last.value
        limit == IF last.opts.limit = <<>> THEN DefaultLimit ELSE last.opts.limit[1]
        matching == { d \in Records(tracesDir) :
                        StartsWith(Chars(d.skill), last.opts.skill[1]) }
    IN /\ Range(res) \subseteq matching
       /\ Len(res) = Min(limit, Cardinality(matching))

RecordsOf(d, name) == { x \in Records(d) : x.skill = name }

\* C25: after prune(k), every unlink having succeeded, each specification
\* name keeps its k most recently recorded records (all of them when it has
\* fewer), and the number returned is the number of records deleted.
C25_PruneKeepsNewest ==
  (last.name = "prune" /\ last.failed = {}) =>
    LET k == IF last.keep = <<>> THEN DefaultKeep ELSE last.keep[1]
    IN /\ \A n \in { x.skill : x \in Records(last.before) } :
            /\ Cardinality(RecordsOf(tracesDir, n)) =
                 Min(k, Cardinality(RecordsOf(last.before, n)))
            /\ \A a \in RecordsOf(tracesDir, n) :
                 \A b \in RecordsOf(last.before, n) \ RecordsOf(tracesDir, n) :
                   a.ts >= b.ts
       /\ last.deleted =
            Cardinality(Records(last.before)) - Cardinality(Records(tracesDir))

Primitive(v) == v.kind \in {"undefined", "null", "boolean", "number", "nan", "string"}

\* o[k] for the members o of an object
ReadMember(o, k) == IF k \in DOMAIN o THEN o[k] ELSE JsUndefined

\* C26: after id = record(r) has returned, get(id) returns a record with
\* trace_id = id and the specification name, version, ok, startState,
\* endState, steps and trace of r, whose ctx_summary has every primitive
\* member of r.ctx with its value and has neither adapters nor a member of
\* r.ctx that is a function; get of an identifier that no call of record
\* returned gives null.
C26_RecordGetRoundTrip ==
  /\ (last.name = "record" /\ last.kind = "return") =>
       LET r == last.result
           g == get(tracesDir, last.value)
       IN /\ g /= <<>>
          /\ g[1].trace_id = last.value
          /\ g[1].skill = r.skill.name
          /\ g[1].version = r.skill.version
          /\ g[1].ok = r.ok
          /\ g[1].startState = r.startState
          /\ g[1].endState = r.endState
          /\ g[1].steps = r.steps
          /\ g[1].trace = r.trace
          /\ \A k \in DOMAIN r.ctx :
               Primitive(r.ctx[k]) => ReadMember(g[1].ctx_summary, k) = r.ctx[k]
          /\ "adapters" \notin DOMAIN g[1].ctx_summary
          /\ \A k \in DOMAIN r.ctx :
               r.ctx[k].kind = "function" => k \notin DOMAIN g[1].ctx_summary
  /\ (last.name = "get" /\ last.id \notin RecordedIds) => last.value = <<>>

\* ------------------------------------------------------------------------
\* middleware/withTrace.ts: a run of the engine family, recorded
\* ------------------------------------------------------------------------
\* let trace_id = "unrecorded"
Unrecorded == <<"u", "n", "r", "e", "c", "o", "r", "d", "e", "d">>

\* the context of a family run as the object record() reads: the two flags
FlagsCtx(c) ==
  [k \in {"g0", "g1"} |-> JsBool(IF k = "g0" THEN c % 2 = 1 ELSE (c \div 2) % 2 = 1)]

\* getTraceStore(): throws unless initTraceStore was called
getTraceStore(st) ==
  IF st THEN [kind |-> "return"]
  ELSE [kind |-> "raise", error |-> [name |-> "Error",
                                     message |-> "TraceStore not initialized. Call initTraceStore(dataDir) first."]]

\* { ...result, trace_id }
WithTraceId(r, id) ==
  [k \in DOMAIN r \cup {"trace_id"} |-> IF k = "trace_id" THEN id ELSE r[k]]

\* variant: the try around the recording is missing
runTracedSkillRethrow(st, d, r, t, rnd) ==
  IF getTraceStore(st).kind = "raise"
  THEN { [kind |-> "raise", error |-> getTraceStore(st).error, dir |-> d,
          attempts |-> <<>>] }
  ELSE { IF o.kind = "return"
         THEN [kind |-> "return", value |-> WithTraceId(r, o.value), dir |-> o.dir,
               attempts |-> <<<<o.value>>>>]
         ELSE [kind |-> "raise", error |-> o.error, dir |-> o.dir,
               attempts |-> <<<<>>>>] :
           o \in record(d, [r EXCEPT !.ctx = FlagsCtx(r.ctx)], t, t, rnd) }

\* runTracedSkill once runSkill has resolved to r: the store st, the traces
\* directory d, the time t and the random bytes rnd of the identifier.
\* attempts: what the call of record returned, when there was one
runTracedSkill(st, d, r, t, rnd) ==
  IF getTraceStore(st).kind = "raise"
  THEN { [kind |-> "return", value |-> WithTraceId(r, Unrecorded), dir |-> d,
          attempts |-> <<>>] }
  ELSE { [kind |-> "return",
          value |-> WithTraceId(r, IF o.kind = "return" THEN o.value ELSE Unrecorded),
          dir |-> o.dir,
          attempts |-> <<IF o.kind = "return" THEN <<o.value>> ELSE <<>>>>] :
           o \in record(d, [r EXCEPT !.ctx = FlagsCtx(r.ctx)], t, t, rnd) }

\* the rest of runTracedSkill after  const result = await runSkill(...)
Traced ==
  /\ pc = "done"
  /\ ~escaped
  /\ last.name = "none"
  /\ \E rnd \in RandHex : \E o \in runTracedSkill(store, tracesDir, result, now, rnd) :
       /\ tracesDir' = o.dir
       /\ recorded' = recorded \o o.attempts
       /\ last' = IF o.kind = "return"
                  THEN [name |-> "runTracedSkill", kind |-> o.kind, value |-> o.value]
                  ELSE [name |-> "runTracedSkill", kind |-> o.kind, error |-> o.error]
  /\ UNCHANGED <<store, now>>
  /\ TsFrame

\* a run of the family in a process whose trace store is initialized or
\* not, with the traces directory present or not
TracedInit ==
  /\ \E sp \in SpecFamily, c \in CtxValues, a \in AllowedChoices,
        m \in {<<n>> : n \in 0..MaxStepsBound} \cup {<<>>} :
       /\ (m = <<>> => sp \in {LoopSpec, TrivialSpec} /\ c = 0 /\ a = <<>>)
       /\ EngineInit(sp, c, [maxSteps |-> m, allowedStates |-> a])
  /\ fs = NoFiles
  /\ volume = "ok"
  /\ now = 0
  /\ run = 0
  /\ fs0 = NoFiles
  /\ input = ctx
  /\ preRun = NoFiles
  /\ lastCommit = Undef
  /\ AwIdle
  /\ ShIdle
  /\ TmIdle
  /\ store \in BOOLEAN
  /\ tracesDir \in {<<>>, <<NoFiles>>}
  /\ recorded = <<>>
  /\ last = [name |-> "none"]

TracedNext ==
  \/ Next
  \/ Traced

SpecTraced == TracedInit /\ [][TracedNext]_vars

\* C22: runTracedSkill returns, with the ok, endState, steps, trace and ctx
\* of the result of runSkill, and with trace_id "unrecorded" when the trace
\* store is not initialized or record raised; it never raises.
C22_RecordingNeverFailsRun ==
  last.name = "runTracedSkill" =>
    /\ last.kind = "return"
    /\ \A k \in {"ok", "endState", "steps", "trace", "ctx"} : last.value[k] = result[k]
    /\ (~store \/ recorded = <<<<>>>>) => last.value.trace_id = Unrecorded

\* a failed run, in a process with a trace store and a traces directory,
\* whose call of record raised: returned with trace_id "unrecorded"
C22_Witness ==
  /\ last.name = "runTracedSkill"
  /\ last.kind = "return"
  /\ last.value.trace_id = Unrecorded
  /\ ~last.value.ok
  /\ store
  /\ tracesDir /= <<>>
  /\ recorded = <<<<>>>>

\* ------------------------------------------------------------------------
\* middleware/withGovernor.ts: an action behind the execution governor
\* ------------------------------------------------------------------------
\* class GovernorDenied
GovernorDenied(decision, detail) ==
  [name |-> "GovernorDenied", decision |-> decision, detail |-> detail,
   message |-> "Governor " \o decision \o ": " \o
               (IF detail.reason = NoOpt THEN "no reason" ELSE detail.reason)]

\* mode: govInput.action?.includes("public") ? "PUBLIC" : "PRIVATE"
GovernedMode(g) ==
  IF Includes(Chars(g.action), Chars("public")) THEN "PUBLIC" ELSE "PRIVATE"

\* the governor context as the object record() reads
GovernorJsCtx(c) ==
  [k \in DOMAIN c |->
     IF k \in {"action", "regime", "mode", "decision", "reason"}
     THEN (IF c[k] = NoOpt THEN JsUndefined ELSE JsStr(c[k]))
     ELSE IF k = "throttleMs"
     THEN (IF c[k] = Undef THEN JsUndefined ELSE JsNum(c[k][1]))
     ELSE IF k = "debug"
     THEN (IF c[k] = Undef THEN JsUndefined
           ELSE JsObj([n \in DOMAIN c[k][1] |->
                         IF n = "normalized" THEN JsBool(c[k][1][n])
                         ELSE JsNum(c[k][1][n])]))
     ELSE JsNum(c[k])]

\* variant: everything but a denial lets the action run
ApprovedUnlessDenied(decision) == decision /= "DENIED"

\* if (decision === "APPROVED")
Approved(decision) == decision = "APPROVED"

\* the inputs buildGovernorCtx returns: the two inputs of the integration
\* test, inputs for the other decisions, inputs without an action or a
\* regime, an action that is public
GovernedSignals ==
  { <<88, 75, 82, 70, 100>>, <<10, 10, 5, 5, 0>>, <<90, 80, 85, 75, 0>>,
    <<57, 20, 60, 48, 56>>, <<57, 80, 60, 48, 56>>, <<90, 83, 24, 75, 100>> }

GovernedInputs ==
  { GovernorCtx(a, rg, NoOpt, sig) :
      a \in {"trade.execute", "trade.public_post", ""},
      rg \in {"ACCUMULATION", "COLLAPSE", ""}, sig \in GovernedSignals }

\* let trace_id = "unrecorded"; try { trace_id = await
\* getTraceStore().record(govRun) } catch (e) { console.error(...) }
recordGovRun(st, d, r, t, rnd) ==
  IF getTraceStore(st).kind = "raise"
  THEN { [trace_id |-> Unrecorded, dir |-> d, attempts |-> <<>>] }
  ELSE { [trace_id |-> IF o.kind = "return" THEN o.value ELSE Unrecorded,
          dir |-> o.dir,
          attempts |-> <<IF o.kind = "return" THEN <<o.value>> ELSE <<>>>>] :
           o \in record(d, [r EXCEPT !.ctx = GovernorJsCtx(r.ctx)], t, t, rnd) }

\* withGovernor from the end of the governor run to the test of the decision
GovernedRecord ==
  /\ pc = "done"
  /\ ~escaped
  /\ last.name = "none"
  /\ \E rnd \in RandHex : \E o \in recordGovRun(store, tracesDir, result, now, rnd) :
       /\ tracesDir' = o.dir
       /\ recorded' = recorded \o o.attempts
       /\ last' = [name |-> "withGovernor", at |-> "recorded",
                   trace_id |-> o.trace_id, invoked |-> FALSE]
  /\ UNCHANGED <<store, now>>
  /\ TsFrame

\* const decision = govRun.ctx.decision; if (decision === "APPROVED") the
\* action is invoked, else  throw new GovernorDenied(decision ?? "DENIED", ...)
GovernedDecide ==
  /\ last.name = "withGovernor"
  /\ last.at = "recorded"
  /\ LET decision == result.ctx.decision
     IN last' = IF Approved(decision)
                THEN [last EXCEPT !.at = "action", !.invoked = TRUE]
                ELSE [name |-> "withGovernor", at |-> "done",
                      trace_id |-> last.trace_id, invoked |-> FALSE,
                      kind |-> "raise",
                      error |-> GovernorDenied(
                                  IF decision = NoOpt THEN "DENIED" ELSE decision,
                                  [decision |-> decision,
                                   reason |-> result.ctx.reason,
                                   throttleMs |-> result.ctx.throttleMs,
                                   endState |-> result.endState,
                                   trace_id |-> last.trace_id])]
  /\ UNCHANGED <<tracesDir, store, recorded, now>>
  /\ TsFrame

\* const result = await action(...args): the action resolves, and the
\* receipt is returned, or it rejects
GovernedAction ==
  /\ last.name = "withGovernor"
  /\ last.at = "action"
  /\ \E o \in {"return", "raise"} :
       last' = IF o = "return"
               THEN [name |-> "withGovernor", at |-> "done",
                     trace_id |-> last.trace_id, invoked |-> TRUE,
                     kind |-> "return",
                     value |-> [result |-> [done |-> TRUE],
                                governor |-> [trace_id |-> last.trace_id,
                                              decision |-> "APPROVED",
                                              reason |-> result.ctx.reason]]]
               ELSE [name |-> "withGovernor", at |-> "done",
                     trace_id |-> last.trace_id, invoked |-> TRUE,
                     kind |-> "raise",
                     error |-> [name |-> "Error", message |-> "action failed"]]
  /\ UNCHANGED <<tracesDir, store, recorded, now>>
  /\ TsFrame

GovernedInit ==
  /\ \E g \in GovernedInputs :
       EngineInit(executionGovernorSpec, [g EXCEPT !.mode = GovernedMode(g)],
                  [maxSteps |-> <<>>, allowedStates |-> <<>>])
  /\ fs = NoFiles
  /\ volume = "ok"
  /\ now = 0
  /\ run = 0
  /\ fs0 = NoFiles
  /\ input = ctx
  /\ preRun = NoFiles
  /\ lastCommit = Undef
  /\ AwIdle
  /\ ShIdle
  /\ TmIdle
  /\ store \in BOOLEAN
  /\ tracesDir \in {<<>>, <<NoFiles>>}
  /\ recorded = <<>>
  /\ last = [name |-> "none"]

GovernedNext ==
  \/ GovernorNext
  \/ GovernedRecord
  \/ GovernedDecide
  \/ GovernedAction

SpecGoverned == GovernedInit /\ [][GovernedNext]_vars

\* C27: withGovernor invokes the action exactly when the decision of the
\* governor run is APPROVED; on THROTTLED, on DENIED and on a failed run
\* without a decision it throws GovernorDenied without invoking the action;
\* when the action starts, record has been called on the governor run (its
\* record is in the store, or the call raised) unless the process has no
\* trace store.
C27_GovernorGatesAction ==
  last.name = "withGovernor" =>
    /\ last.at \in {"action", "done"} =>
         (last.invoked <=> result.ctx.decision = "APPROVED")
    /\ (last.at = "done" /\ result.ctx.decision /= "APPROVED") =>
         /\ last.kind = "raise"
         /\ last.error.name = "GovernorDenied"
         /\ last.error.decision = (IF result.ctx.decision = NoOpt THEN "DENIED"
                                   ELSE result.ctx.decision)
    /\ last.invoked =>
         /\ ~store \/ Len(recorded) = 1
         /\ last.trace_id = Unrecorded \/ get(tracesDir, last.trace_id) /= <<>>
         /\ (store /\ recorded /= <<<<>>>>) => last.trace_id /= Unrecorded

\* a governor run that failed on its input and left no decision: the call
\* threw GovernorDenied("DENIED") and the action was not invoked
C27_Witness ==
  /\ last.name = "withGovernor"
  /\ last.at = "done"
  /\ ~result.ok
  /\ result.ctx.decision = NoOpt
  /\ last.kind = "raise"
  /\ last.error.name = "GovernorDenied"
  /\ ~last.invoked

\* C31: each round of guard evaluation appends to the trace, before any
\* exit or transition event of the round, a guard event for the transition
\* evaluated (the next one in declared order), with the boolean result: the
\* value of the guard, true for a transition without a guard.
C31_GuardEventForEvery ==
  [][ pc = "guard" =>
        LET t == Outgoing(current)[ti]
        IN /\ Len(trace') > Len(trace)
           /\ trace'[Len(trace) + 1].type = "guard"
           /\ trace'[Len(trace) + 1].state = current
           /\ trace'[Len(trace) + 1].to = t.to
           /\ trace'[Len(trace) + 1].label = t.label
           /\ trace'[Len(trace) + 1].guardResult = GuardHolds(t, ctx) ]_vars

\* the last enter event of the trace
LastEntered(tr) ==
  LET n == CHOOSE i \in 1..Len(tr) :
             tr[i].type = "enter" /\ \A j \in (i + 1)..Len(tr) : tr[j].type /= "enter"
  IN tr[n].state

\* C32: when a transition is selected in a state with an exit hook, the hook
\* is invoked after the guard evaluation and before the transition event and
\* the move to the destination; when the hook raises (other than by a fail
\* call) an error event for the state is recorded, nothing is invoked
\* afterwards, the destination is not entered and the run ends in
\* ActionError with ok = false.
C32_ExitHookOrder ==
  /\ [][ (pc = "guard" /\ spec.states[stateDef].onExit /= NoHook
            /\ GuardHolds(Outgoing(current)[ti], ctx)) =>
           /\ pc' = "exit"
           /\ sel' = Outgoing(current)[ti]
           /\ current' = current
           /\ "transition" \notin EventsAfter(trace', Len(trace))
           /\ trace'[Len(trace')] = [type |-> "exit", state |-> current]
           /\ \A i \in (Len(calls) + 1)..Len(calls') : calls'[i].op = "guard" ]_vars
  /\ [][ pc = "exit" =>
           /\ Len(calls') = Len(calls) + 1
           /\ calls'[Len(calls')].op = "onExit"
           /\ calls'[Len(calls')].state = stateDef
           /\ pc' = "loop" =>
                /\ current' = sel.to
                /\ trace'[Len(trace')].type = "transition"
                /\ trace'[Len(trace')].to = sel.to
                /\ trace'[Len(trace')].label = sel.label
           /\ calls'[Len(calls')].outcome = "raise" =>
                /\ pc' = "catch"
                /\ exc'.name = "SkillFail"
                /\ exc'.failState = "ActionError"
                /\ trace'[Len(trace) + 1].type = "error"
                /\ trace'[Len(trace) + 1].state = current
                /\ trace'[Len(trace) + 1].error.name = ErrName(calls'[Len(calls')].error)
                /\ \A k \in (Len(trace) + 1)..Len(trace') :
                     trace'[k].type = "transition" => trace'[k].label = "FAIL" ]_vars
  /\ [](\A i \in 1..Len(calls) :
          (calls[i].op = "onExit" /\ calls[i].outcome = "raise") =>
            /\ i = Len(calls)
            /\ pc \in {"catch", "done"}
            /\ LastEntered(trace) = calls[i].state
            /\ pc = "done" => (result.endState = "ActionError" /\ ~result.ok))

\* the exit hook of B raised after the guard-less transition B -> T was
\* selected: T was not entered and the run ended in ActionError
C32_Witness ==
  /\ pc = "done"
  /\ spec = BranchSpec
  /\ Len(calls) > 0
  /\ calls[Len(calls)].op = "onExit"
  /\ calls[Len(calls)].state = "B"
  /\ calls[Len(calls)].outcome = "raise"
  /\ sel.to = "T"
  /\ result.endState = "ActionError"
  /\ ~result.ok
  /\ \A k \in 1..Len(trace) : trace[k].type = "transition" => trace[k].to /= "T"

\* the backup files of artifact p in the files f
BackupsOf(f, p) ==
  { q \in DOMAIN f : Len(q) = Len(p) + 2 /\ SubSeq(q, 1, Len(p)) = p
                       /\ q[Len(p) + 1] = "bak" }

\* the artifacts whose content differs from the one before the run
Overwritten(f) == { p \in Artifacts : Content(f, p) /= Content(preRun, p) }

\* C33: in the step that invokes writeAtomic, however the call ends: once an
\* artifact has been overwritten, every artifact (index, scores) that existed
\* before the run has a backup file holding its pre-run content; when the
\* call returns, the backup path it returns for such an artifact names that
\* file; for an artifact that did not exist no backup file is made and the
\* backup path returned is absent.
C33_BackupBeforeWrite ==
  [][ (pc = "enter" /\ stateDef = "WriteAtomic") =>
        \A p \in Artifacts :
          /\ (Overwritten(fs') /= {} /\ p \in DOMAIN preRun) =>
               /\ BakPath(p, now) \in DOMAIN fs'
               /\ fs'[BakPath(p, now)] = preRun[p]
          /\ p \notin DOMAIN preRun => BackupsOf(fs', p) = BackupsOf(fs, p)
          /\ calls'[Len(calls')].ok =>
               LET bak == ctx'.pendingBackups[1][IF p = IndexPath THEN "indexBak"
                                                 ELSE "scoresBak"]
               IN IF p \in DOMAIN preRun
                  THEN /\ bak = <<BakPath(p, now)>>
                       /\ fs'[bak[1]] = preRun[p]
                  ELSE bak = Undef ]_vars

\* writeAtomic returned in a directory that held an index but no scores: the
\* index has its backup, the scores have none
C33_Witness ==
  /\ IsPipelineRun
  /\ AdapterReturned("writeAtomic")
  /\ IndexPath \in DOMAIN preRun
  /\ ScoresPath \notin DOMAIN preRun
  /\ ctx.pendingBackups /= Undef
  /\ ctx.pendingBackups[1].indexBak = <<BakPath(IndexPath, now)>>
  /\ ctx.pendingBackups[1].scoresBak = Undef
  /\ fs[BakPath(IndexPath, now)] = preRun[IndexPath]
  /\ fs[IndexPath] /= preRun[IndexPath]

\* ------------------------------------------------------------------------
\* The rollback adapter, invoked with the context of a run that has ended
\* ------------------------------------------------------------------------
\* await ctx.adapters.rollback(ctx)
InvokeRollback ==
  /\ pc = "done"
  /\ "rollback" \in ctx.adapters
  /\ last.name = "none"
  /\ \E r \in rollback(ctx, fs) :
       /\ fs' = r.fs
       /\ last' = IF r.ok
                  THEN [name |-> "rollback", kind |-> "return", value |-> r.value,
                        before |-> fs]
                  ELSE [name |-> "rollback", kind |-> "raise", error |-> r.error,
                        before |-> fs]
  /\ UNCHANGED <<engineVars, volume, now, run, fs0, input, preRun, lastCommit,
                 awVars, shVars, tracesDir, store, recorded, tmVars>>

RollbackNext ==
  \/ PipelineRunNext
  \/ InvokeRollback

SpecRollback == PipelineRunInit /\ [][RollbackNext]_vars

\* what rollbackArtifacts notes for an artifact without a backup
NoBackupNote(p) ==
  (IF p = IndexPath THEN "index" ELSE "scores") \o " rollback: no backup found"

\* the notes of the two artifacts in the note that rollback returns
RollbackNotes(note) ==
  CHOOSE x \in { <<a, b>> : a, b \in { NoBackupNote(IndexPath), NoBackupNote(ScoresPath),
                                      "restored index from backup",
                                      "restored scores from backup" } } :
    note = x[1] \o " | " \o x[2]

\* C34: after rollback was invoked with the context of a run, an artifact
\* that did not exist before the run is absent, the note returned records
\* that it had no backup, and the call did not raise when neither artifact
\* existed before the run.
C34_RollbackWithoutBackup ==
  last.name = "rollback" =>
    /\ \A p \in Artifacts :
         p \notin DOMAIN preRun =>
           /\ p \notin DOMAIN fs
           /\ last.kind = "return" =>
                RollbackNotes(last.value.note)[IF p = IndexPath THEN 1 ELSE 2]
                  = NoBackupNote(p)
    /\ Artifacts \cap DOMAIN preRun = {} => last.kind = "return"

\* C35: when writeAtomic raised after overwriting an artifact that existed
\* before the run, and rollback, invoked with the context of that run,
\* returned, every artifact that existed before the run has its pre-run
\* content again.
C35_RollbackRestoresPreRun ==
  (last.name = "rollback" /\ last.kind = "return" /\ AdapterRaised("writeAtomic")
     /\ Overwritten(last.before) \cap DOMAIN preRun /= {}) =>
    \A p \in Artifacts \cap DOMAIN preRun : Content(fs, p) = Content(preRun, p)

\* the decision of a governor run on the input c: the enter hooks of Start,
\* Guardrails, Score and Decide in the order of the transitions
DecisionOf(c) ==
  LET o1 == CHOOSE o \in GovernorStartOnEnter(c, NoFiles) : TRUE
  IN IF o1.kind /= "return" THEN o1.ctx.decision
     ELSE LET o2 == CHOOSE o \in GuardrailsOnEnter(o1.ctx, NoFiles) : TRUE
          IN IF o2.kind /= "return" THEN o2.ctx.decision
             ELSE IF o2.ctx.decision = "DENIED" THEN "DENIED"
             ELSE LET o3 == CHOOSE o \in GovernorScoreOnEnter(o2.ctx, NoFiles) : TRUE
                      o4 == CHOOSE o \in DecideOnEnter(o3.ctx, NoFiles) : TRUE
                  IN o4.ctx.decision

\* <<stricter, laxer>> modes and regimes
ModeOrder == { <<"PUBLIC", "PRIVATE">>, <<"PRIVATE", NoOpt>> }

RegimeOrder ==
  { <<"COLLAPSE", "DISTRIBUTION">> } \cup
    { <<"DISTRIBUTION", rg>> : rg \in GovernorRegimes \ {"COLLAPSE", "DISTRIBUTION"} }

\* the decision d of an input carries over to the input c
CarriesOver(d, c) ==
  /\ d = "APPROVED" => DecisionOf(c) = "APPROVED"
  /\ d /= "DENIED" => DecisionOf(c) /= "DENIED"

\* C36: the decision of a governor run is the one the hooks compute from its
\* input, and for the same signals a request APPROVED (not DENIED) in a
\* stricter mode is APPROVED (not DENIED) in the next laxer one (PUBLIC,
\* PRIVATE, no mode), and one APPROVED (not DENIED) under a more adverse
\* regime is so under the next less adverse one (COLLAPSE, DISTRIBUTION,
\* every regime other than these two).
C36_ThresholdsOrdered ==
  (pc = "done" /\ IsGovernorRun) =>
    /\ result.ctx.decision = DecisionOf(input)
    /\ \A m \in ModeOrder :
         input.mode = m[1] =>
           CarriesOver(result.ctx.decision, [input EXCEPT !.mode = m[2]])
    /\ \A rg \in RegimeOrder :
         input.regime = rg[1] =>
           CarriesOver(result.ctx.decision, [input EXCEPT !.regime = rg[2]])

\* a request approved in PUBLIC mode under COLLAPSE: PRIVATE mode approves
\* it, and so does the regime DISTRIBUTION
C36_Witness ==
  /\ pc = "done"
  /\ IsGovernorRun
  /\ input.mode = "PUBLIC"
  /\ input.regime = "COLLAPSE"
  /\ result.ctx.decision = "APPROVED"
  /\ DecisionOf([input EXCEPT !.mode = "PRIVATE"]) = "APPROVED"
  /\ DecisionOf([input EXCEPT !.regime = "DISTRIBUTION"]) = "APPROVED"

C38_TraceEndsWithDone ==
  /\ pc = "done" =>
       /\ Len(result.trace) > 0
       /\ result.trace[Len(result.trace)].type = "done"
       /\ result.trace[Len(result.trace)].state = result.endState
  /\ \A k \in 1..Len(trace) : trace[k].type = "done" => k = Len(trace)

\* C39: every call of record that returns stores its trace under an
\* identifier that no earlier call of record returned, and leaves the files
\* of the traces recorded before it as they were, also when both calls fall
\* in the same millisecond.
C39_RecordIdsDistinct ==
  [][ (Len(recorded') = Len(recorded) + 1 /\ recorded'[Len(recorded')] /= <<>>) =>
        /\ recorded'[Len(recorded')][1] \notin RecordedIds
        /\ \A id \in RecordedIds :
             (id \o JsonSuffix) \in DOMAIN tracesDir[1] =>
               /\ (id \o JsonSuffix) \in DOMAIN tracesDir'[1]
               /\ tracesDir'[1][id \o JsonSuffix] = tracesDir[1][id \o JsonSuffix] ]_vars


\* ------------------------------------------------------------------------
\* The refresh timer (jobs/startInternalRefreshTimer.ts)
\* ------------------------------------------------------------------------
\* opts.everyMs: the periods explored
EveryMsSet == {1, 2}

\* a call of tick that has built its ctx and awaits runSkill
NewTick(t) == [pc |-> "runSkill", started |-> t, trace_id |-> "unrecorded"]

\* the calls of tick whose pipeline run has not resolved yet
InFlight == { i \in 1..Len(timer.ticks) : timer.ticks[i].pc = "runSkill" }

TmFrame == UNCHANGED <<engineVars, fs, volume, run, fs0, input, preRun, lastCommit,
                       awVars, shVars, tsVars>>

\* startInternalRefreshTimer(opts): the boot tick runs up to its first
\* await, then setInterval
StartTimer ==
  /\ timer.interval = "none"
  /\ \E e \in EveryMsSet :
       timer' = [interval |-> "set", everyMs |-> e, due |-> now + e,
                 ticks |-> <<NewTick(now)>>]
  /\ UNCHANGED now
  /\ TmFrame

\* the interval fires: () => tick().catch(...), whatever the earlier calls
\* of tick are doing
IntervalTick ==
  /\ timer.interval = "set"
  /\ now = timer.due
  /\ Len(timer.ticks) < MaxTicks
  /\ timer' = [timer EXCEPT !.ticks = Append(@, NewTick(now)),
                            !.due = @ + timer.everyMs]
  /\ UNCHANGED now
  /\ TmFrame

\* const res = await runSkill(...): the run of a tick resolves
TickRunResolves ==
  /\ \E i \in InFlight :
       timer' = [timer EXCEPT !.ticks[i].pc = "record"]
  /\ UNCHANGED now
  /\ TmFrame

\* try { trace_id = await getTraceStore().record(res) } catch { ... }
TickRecord ==
  /\ \E i \in 1..Len(timer.ticks), id \in {"recorded", "unrecorded"} :
       /\ timer.ticks[i].pc = "record"
       /\ timer' = [timer EXCEPT !.ticks[i].pc = "onRun", !.ticks[i].trace_id = id]
  /\ UNCHANGED now
  /\ TmFrame

\* opts.onRun(res, trace_id) or the console report; return, or the
\* rejection that the caller's catch reports
TickOnRun ==
  /\ \E i \in 1..Len(timer.ticks), end \in {"returned", "rejected"} :
       /\ timer.ticks[i].pc = "onRun"
       /\ timer' = [timer EXCEPT !.ticks[i].pc = end]
  /\ UNCHANGED now
  /\ TmFrame

\* the stop function: clearInterval(id)
StopTimer ==
  /\ timer.interval = "set"
  /\ timer' = [timer EXCEPT !.interval = "cleared"]
  /\ UNCHANGED now
  /\ TmFrame

\* a millisecond passes; an interval that is due fires first
Elapse ==
  /\ now < MaxElapsed
  /\ ~(timer.interval = "set" /\ now = timer.due)
  /\ now' = now + 1
  /\ UNCHANGED timer
  /\ TmFrame

TimerInit == AtomicInit

TimerNext ==
  \/ StartTimer
  \/ IntervalTick
  \/ TickRunResolves
  \/ TickRecord
  \/ TickOnRun
  \/ StopTimer
  \/ Elapse

SpecTimer == TimerInit /\ [][TimerNext]_vars

\* C40: the refresh timer never has two pipeline runs in flight: no tick,
\* boot or interval, starts a run while the run of an earlier tick has not
\* resolved.
C40_OneRunInFlight == Cardinality(InFlight) <= 1


====
